---------------------------- MODULE Spec2Model ----------------------------
(***************************************************************************)
(* A model of the categories plugin (src/bot.py): the keyword dictionary   *)
(* (CategoryDictionary), the image store (ImageDictionary), the duplicate  *)
(* keyword housekeeping, the autoplay cursor (Autoplay) and the scoring of *)
(* a game round (Scorecard, GamePlay).                                     *)
(*                                                                         *)
(* Strings are sequences of one-character strings, so that casefold,       *)
(* strip, unquote_plus, quote_plus and substring tests are computed.       *)
(* A Python dict is a sequence of <<key, value>> pairs in insertion order  *)
(* (the order Python iterates it in).                                      *)
(***************************************************************************)
EXTENDS Integers, Sequences, FiniteSets, TLC

VARIABLES
    \* CategoryDictionary
    cat,             \* the dict itself: id -> keyword, in insertion order
    reverse_lookup,  \* keyword -> id
    next_index,
    cat_file,        \* rows <<id, percent-encoded keyword>> of the categories file
    cat_phase,       \* "new" before read_categories, "ready" after
    cat_last,        \* the last completed call on the dictionary: name, arguments, result
    \* threads inside CategoryDictionary.add_category
    add_pc,          \* thread -> "idle", "lookup", "allocate", "append", "done"
    add_kw,          \* thread -> the keyword passed
    add_idx,         \* thread -> the local idx (the id returned once done)
    add_allocated,   \* the ids the calls have allocated so far
    \* ImageDictionary
    images,          \* the dict itself: id -> Image, in insertion order
    next_image_id,
    url_file,        \* the images file: [exists, rows], a row is <<id, url, cat, count, ...>>
    deleted_url_file,\* the deleted images file, same format
    img_phase,       \* "new" before read_images, "ready" after
    img_last,        \* the last completed call on the image dictionary
    \* Autoplay
    autoplay,        \* the object: its fields
    auto_last,       \* the last completed call on it
    \* GamePlay
    gameplay,        \* the object: game_on, autogame, current_image_id, players
    game_last,       \* the last completed call on it
    game_pc,         \* where the next-image command, the tick callback and the love commands are
    \* threads inside the add command (on_add_image)
    cmd_pc,          \* thread -> "idle", "add"
    cmd_url,         \* thread -> the url of the command
    \* UrlChecker
    url_checker,     \* the object: its fields
    chk_pc,          \* thread -> where it is in process_callback
    chk_log,         \* the images checked since the list of ids was taken
    chk_last,        \* the last completed call on it
    img_lock         \* ImageDictionary.lock: "free" or who holds it

catVars == <<cat, reverse_lookup, next_index, cat_file, cat_phase, cat_last>>
concVars == <<add_pc, add_kw, add_idx, add_allocated>>
imgVars == <<images, next_image_id, url_file, deleted_url_file, img_phase, img_last>>

autoVars == <<autoplay, auto_last>>
gameVars == <<gameplay, game_last, game_pc>>
cmdVars == <<cmd_pc, cmd_url>>
chkVars == <<url_checker, chk_pc, chk_log, chk_last, img_lock>>
restVars == <<autoVars, gameVars, cmdVars, chkVars>>

vars == <<catVars, concVars, imgVars, autoVars, gameVars, cmdVars, chkVars>>

\* what the calls of one component leave alone
notCat == <<concVars, imgVars, restVars>>
notImg == <<catVars, concVars, restVars>>

----------------------------------------------------------------------------
(* Bounds of the model *)

MaxCatRows == 2      \* rows of the categories file at start
MaxCatId == 2        \* largest id in a row of the categories file at start
MaxCatKey == 3       \* add_category is not called once it would allocate a larger id
MaxImageId == 2      \* add_image and restore_image do not allocate a larger image id
MaxDeleted == 2      \* delete_image is not called with this many rows in the deleted file
MaxVotes == 1        \* a live image takes no more votes for one category

----------------------------------------------------------------------------
(* Strings *)

\* str.casefold, on the characters of the model
casefoldChar(c) ==
    CASE c = "A" -> "a"
      [] c = "B" -> "b"
      [] OTHER -> c

casefold(s) == [i \in 1..Len(s) |-> casefoldChar(s[i])]

isSpace(c) == c = " "

RECURSIVE lstrip(_)
lstrip(s) ==
    IF s # <<>> /\ isSpace(Head(s)) THEN lstrip(Tail(s)) ELSE s

RECURSIVE rstrip(_)
rstrip(s) ==
    IF s # <<>> /\ isSpace(s[Len(s)]) THEN rstrip(SubSeq(s, 1, Len(s) - 1)) ELSE s

\* the value of a hexadecimal digit, -1 for any other character
hexVal(c) ==
    CASE c = "0" -> 0 [] c = "1" -> 1 [] c = "2" -> 2 [] c = "4" -> 4
      [] c = "5" -> 5 [] c = "6" -> 6
      [] c = "a" -> 10 [] c = "A" -> 10 [] c = "b" -> 11 [] c = "B" -> 11
      [] OTHER -> -1

\* the character of a byte; "?" stands for every character outside the model's alphabet
chr(n) ==
    CASE n = 32 -> " " [] n = 37 -> "%" [] n = 43 -> "+"
      [] n = 48 -> "0" [] n = 49 -> "1" [] n = 50 -> "2" [] n = 52 -> "4"
      [] n = 53 -> "5" [] n = 54 -> "6"
      [] n = 65 -> "A" [] n = 66 -> "B" [] n = 97 -> "a" [] n = 98 -> "b"
      [] OTHER -> "?"

\* urllib.parse.unquote: every %XX with two hex digits is decoded, once, left to right
RECURSIVE unquote(_)
unquote(s) ==
    IF s = <<>> THEN <<>>
    ELSE IF Head(s) = "%" /\ Len(s) >= 3 /\ hexVal(s[2]) >= 0 /\ hexVal(s[3]) >= 0
         THEN <<chr(16 * hexVal(s[2]) + hexVal(s[3]))>> \o unquote(SubSeq(s, 4, Len(s)))
         ELSE <<Head(s)>> \o unquote(Tail(s))

\* urllib.parse.unquote_plus: '+' becomes ' ', then unquote
unquote_plus(s) == unquote([i \in 1..Len(s) |-> IF s[i] = "+" THEN " " ELSE s[i]])

\* urllib.parse.quote_plus of one character
quoteChar(c) ==
    CASE c = " " -> <<"+">>
      [] c = "%" -> <<"%", "2", "5">>
      [] c = "+" -> <<"%", "2", "B">>
      [] OTHER -> <<c>>

RECURSIVE quote_plus(_)
quote_plus(s) ==
    IF s = <<>> THEN <<>> ELSE quoteChar(Head(s)) \o quote_plus(Tail(s))

\* Python's "a in b" on strings: a is a contiguous part of b
Contains(b, a) ==
    \E i \in 0..(Len(b) - Len(a)) : SubSeq(b, i + 1, i + Len(a)) = a

----------------------------------------------------------------------------
(* Python dicts: sequences of <<key, value>> in insertion order *)

Keys(d) == [i \in 1..Len(d) |-> d[i][1]]
KeySet(d) == {d[i][1] : i \in 1..Len(d)}
Has(d, k) == k \in KeySet(d)
Idx(d, k) == CHOOSE i \in 1..Len(d) : d[i][1] = k
Get(d, k) == d[Idx(d, k)][2]
\* d[k] = v: an existing key keeps its place, a new key goes last
Put(d, k, v) == IF Has(d, k) THEN [d EXCEPT ![Idx(d, k)] = <<k, v>>] ELSE Append(d, <<k, v>>)
\* del d[k]
Del(d, k) == SelectSeq(d, LAMBDA e : e[1] # k)

RECURSIVE SeqMax(_)
SeqMax(s) ==
    IF Len(s) = 1 THEN s[1]
    ELSE LET m == SeqMax(Tail(s)) IN IF s[1] > m THEN s[1] ELSE m

\* a dict with unordered use (reverse_lookup): a function on its keys
MapPut(f, k, v) == [x \in (DOMAIN f) \cup {k} |-> IF x = k THEN v ELSE f[x]]
MapDel(f, k) == [x \in (DOMAIN f) \ {k} |-> f[x]]
EmptyMap == [x \in {} |-> 0]

----------------------------------------------------------------------------
(* CategoryDictionary *)

\* the keywords players type: plain, upper case, padded, percent-encoded
Words ==
    { <<"a">>, <<"A">>, <<" ", "a">>, <<"%", "6", "1">>, <<"%", "4", "1">>,
      <<"+", "a">>, <<"b">> }

\* the encoded keywords of the rows of a categories file at start
FileWords == { <<"a">>, <<"b">> }

\* the categories files the plugin writes: rows of ascending ids
CatFiles ==
    { f \in UNION { [1..n -> (1..MaxCatId) \X FileWords] : n \in 0..MaxCatRows } :
        \A i \in 1..(Len(f) - 1) : f[i][1] < f[i + 1][1] }

NoCall == [op |-> "none", kw |-> <<>>, id |-> 0, ret |-> 0, raised |-> FALSE, repl |-> EmptyMap]

\* the loop of read_categories over the rows left
RECURSIVE readCategoryRows(_, _, _, _)
readCategoryRows(rows, d, rev, idx) ==
    IF rows = <<>> THEN [cat |-> d, rev |-> rev, idx |-> idx]
    ELSE LET id_ == Head(rows)[1]
             kw == unquote_plus(Head(rows)[2])
         IN readCategoryRows(Tail(rows), Put(d, id_, kw), MapPut(rev, kw, id_),
                             IF id_ > idx THEN id_ ELSE idx)

read_categories ==
    /\ cat_phase = "new"
    /\ LET r == readCategoryRows(cat_file, cat, reverse_lookup, next_index)
       IN /\ cat' = r.cat
          /\ reverse_lookup' = r.rev
          /\ next_index' = r.idx
          /\ cat_last' = [NoCall EXCEPT !.op = "read", !.ret = IF r.idx > next_index THEN 1 ELSE 0]
    /\ cat_phase' = "ready"
    /\ UNCHANGED <<cat_file, notCat>>

\* get_index on a reverse_lookup rev
get_index(rev, item_) ==
    LET cat_ == unquote_plus(casefold(item_))
    IN IF cat_ \in DOMAIN rev THEN rev[cat_] ELSE 0

\* the keyword add_category looks up and stores
category_of(cat_) == unquote_plus(casefold(lstrip(rstrip(cat_))))

\* the id add_category allocates
new_index(d) == IF Len(d) > 0 THEN SeqMax(Keys(d)) + 1 ELSE 1

\* the row update_category and checkpoint write for key
category_row(d, key) == <<key, quote_plus(IF Has(d, key) THEN Get(d, key) ELSE <<>>)>>

\* checkpoint: the whole file, in the dict's order
category_checkpoint(d) == [i \in 1..Len(d) |-> category_row(d, d[i][1])]

\* add_category run alone on (d, rev, file): the id returned and the state left
add_category_result(d, rev, file, cat_) ==
    LET category_ == category_of(cat_)
        found == get_index(rev, category_)
        idx == new_index(d)
        d2 == Put(d, idx, unquote_plus(category_))
    IN IF found # 0
       THEN [ret |-> found, cat |-> d, rev |-> rev, file |-> file]
       ELSE [ret |-> idx, cat |-> d2,
             rev |-> MapPut(rev, unquote_plus(category_), idx),
             file |-> Append(file, category_row(d2, idx))]

add_category(cat_) ==
    /\ cat_phase = "ready"
    /\ new_index(cat) <= MaxCatKey
    /\ LET r == add_category_result(cat, reverse_lookup, cat_file, cat_)
       IN /\ cat' = r.cat
          /\ reverse_lookup' = r.rev
          /\ cat_file' = r.file
          /\ cat_last' = [NoCall EXCEPT !.op = "add", !.kw = cat_, !.ret = r.ret]
    /\ UNCHANGED <<next_index, cat_phase, notCat>>

\* delete_category: del self.reverse_lookup[keyword] raises KeyError when the
\* keyword has no reverse entry, after the forward entry is gone and before the checkpoint
delete_category(key_) ==
    /\ cat_phase = "ready"
    /\ IF Has(cat, key_)
       THEN LET keyword == Get(cat, key_)
            IN /\ cat' = Del(cat, key_)
               /\ IF keyword \in DOMAIN reverse_lookup
                  THEN /\ reverse_lookup' = MapDel(reverse_lookup, keyword)
                       /\ cat_file' = category_checkpoint(cat')
                       /\ cat_last' = [NoCall EXCEPT !.op = "delete", !.id = key_, !.ret = 1]
                  ELSE /\ UNCHANGED <<reverse_lookup, cat_file>>
                       /\ cat_last' = [NoCall EXCEPT !.op = "delete", !.id = key_, !.raised = TRUE]
       ELSE /\ UNCHANGED <<cat, reverse_lookup, cat_file>>
            /\ cat_last' = [NoCall EXCEPT !.op = "delete", !.id = key_]
    /\ UNCHANGED <<next_index, cat_phase, notCat>>

\* find_duplicates on d: the ids of one keyword, in the dict's order
ids_of(d, kw) == SelectSeq(Keys(d), LAMBDA i : Get(d, i) = kw)

\* id_list.pop() first gives the last id of the keyword: it is kept
default_id(d, kw) == LET l == ids_of(d, kw) IN l[Len(l)]

\* repl_ids: every other id of a keyword with several ids -> the kept id
repl_ids(d) ==
    [i \in {j \in KeySet(d) : default_id(d, Get(d, j)) # j} |-> default_id(d, Get(d, i))]

\* find_duplicates without "del self[repl_id]"
find_duplicates_no_del(d, file) ==
    [cat |-> d, file |-> file, repl |-> repl_ids(d)]

\* find_duplicates on (d, categories file): [cat, file, repl]
find_duplicates_result(d, file) ==
    LET repl == repl_ids(d)
        d2 == SelectSeq(d, LAMBDA e : e[1] \notin DOMAIN repl)
    IN [cat |-> d2,
        file |-> IF DOMAIN repl # {} THEN category_checkpoint(d2) ELSE file,
        repl |-> repl]

find_duplicates ==
    /\ cat_phase = "ready"
    /\ LET r == find_duplicates_result(cat, cat_file)
       IN /\ cat' = r.cat
          /\ cat_file' = r.file
          /\ cat_last' = [NoCall EXCEPT !.op = "find_duplicates", !.repl = r.repl]
    /\ UNCHANGED <<reverse_lookup, next_index, cat_phase, notCat>>

CatInit ==
    /\ cat = <<>>
    /\ reverse_lookup = EmptyMap
    /\ next_index = 1
    /\ cat_file \in CatFiles
    /\ cat_phase = "new"
    /\ cat_last = NoCall

Threads == {1, 2}

ConcInit ==
    /\ add_pc = [t \in Threads |-> "idle"]
    /\ add_kw = [t \in Threads |-> <<>>]
    /\ add_idx = [t \in Threads |-> 0]
    /\ add_allocated = {}

NoFile == [exists |-> FALSE, rows |-> <<>>]
NoImgCall == [op |-> "none", id |-> 0, ret |-> 0, cats |-> <<>>, matches |-> <<>>]

\* an ImageDictionary as constructed, with no files
ImgIdle ==
    /\ images = <<>>
    /\ next_image_id = 1
    /\ url_file = NoFile
    /\ deleted_url_file = NoFile
    /\ img_phase = "new"
    /\ img_last = NoImgCall

\* Autoplay.__init__: loop_ and count_up_ are first assigned by set_autoplay
NoAutoCall == [op |-> "none", ret |-> 0, raised |-> FALSE]

DefaultDelay == 30

AutoIdle ==
    /\ autoplay = [autoplay |-> FALSE, delay_ |-> DefaultDelay, sequential_ |-> FALSE,
                   loop_ |-> "unset", count_up_ |-> "unset", count_ |-> 0, cur_id_ |-> 0,
                   image_keys |-> <<>>]
    /\ auto_last = NoAutoCall

\* GamePlay.__init__
NoGameCall == [op |-> "none", nick |-> ""]

\* the plugin's configuration: default_rounds, default_delay, default_pause
DefaultRounds == 5
DefaultGameDelay == 60
DefaultPause == 15

\* no next-image command and no tick callback is running
NoLoveStep == [pc |-> "idle", image_id |-> 0, cat_id |-> 0, hit |-> FALSE]

\* the callbacks that have run in the present period of the interval timer, and
\* the calls of process_clocktick they have made
NoPeriod == [autoplay |-> FALSE, gameplay |-> FALSE, ticks |-> 0]

NoGameStep == [next |-> "idle", image_id |-> 0, tick |-> "idle",
               love |-> [t \in Threads |-> NoLoveStep], period |-> NoPeriod]

GameIdle ==
    /\ game_pc = NoGameStep
    /\ gameplay = [game_on |-> FALSE, autogame |-> FALSE, current_image_id |-> 0,
                   players |-> <<>>,
                   rounds |-> DefaultRounds, delay |-> DefaultGameDelay,
                   pause |-> DefaultPause,
                   current_round |-> 0, current_pause |-> 0, current_delay |-> 0]
    /\ game_last = NoGameCall

\* no add command is running
CmdIdle ==
    /\ cmd_pc = [t \in Threads |-> "idle"]
    /\ cmd_url = [t \in Threads |-> <<>>]

\* UrlChecker.__init__
NoChkCall == [op |-> "none", raised |-> FALSE, id |-> 0, url |-> <<>>,
              orig_ok |-> FALSE, alt_ok |-> FALSE]

ChkIdle ==
    /\ url_checker = [busy |-> FALSE, enabled |-> FALSE, paused |-> FALSE, image_list |-> <<>>,
                      image_idx |-> 0, last_image_idx |-> 0, update_count |-> 0, update_inc |-> 0]
    /\ chk_pc = [t \in Threads |-> "idle"]
    /\ chk_log = <<>>
    /\ chk_last = NoChkCall
    /\ img_lock = "free"

RestIdle == AutoIdle /\ GameIdle /\ CmdIdle /\ ChkIdle

SpecCatInit == CatInit /\ ConcInit /\ ImgIdle /\ RestIdle

SpecCatNext ==
    \/ read_categories
    \/ \E w \in Words : add_category(w)
    \/ \E i \in 1..MaxCatKey : delete_category(i)
    \/ find_duplicates

SpecCat == SpecCatInit /\ [][SpecCatNext]_vars

----------------------------------------------------------------------------
(* Claims on the sequential CategoryDictionary (SpecCat) *)

\* the normal form of a keyword as specified: url-unescape, trim, casefold
Normalize(k) == casefold(lstrip(rstrip(unquote_plus(k))))

\* C1: after add(k1) has returned, add(k2) of any keyword k2 with the same normal
\* form returns the same id, and the store then holds exactly one entry whose
\* keyword is that normal form (k2 = k1 included: add is idempotent).
C1_AddSameKeywordSameId ==
    cat_last.op = "add" =>
        \A k2 \in Words :
            Normalize(k2) = Normalize(cat_last.kw) =>
                LET r == add_category_result(cat, reverse_lookup, cat_file, k2)
                IN /\ r.ret = cat_last.ret
                   /\ Cardinality({i \in 1..Len(r.cat) : r.cat[i][2] = Normalize(k2)}) = 1

\* C9: the reverse map is the exact inverse of the forward map: every stored id's
\* keyword maps back to that id, and every reverse entry points at a stored id
\* carrying that keyword.
C9_ReverseIsInverse ==
    /\ \A i \in KeySet(cat) :
          /\ Get(cat, i) \in DOMAIN reverse_lookup
          /\ reverse_lookup[Get(cat, i)] = i
    /\ \A k \in DOMAIN reverse_lookup :
          /\ Has(cat, reverse_lookup[k])
          /\ Get(cat, reverse_lookup[k]) = k

\* C10: after load, and after any add and delete, next_index is at least the
\* largest stored id plus 1.
C10_NextIndexAboveMax ==
    (cat_phase = "ready" /\ cat # <<>>) => next_index >= SeqMax(Keys(cat)) + 1

----------------------------------------------------------------------------
(* CategoryDictionary.add_category called from several threads (SpecCatConc).
   Each "with self.lock:" block is one step: the lock is taken and released
   inside it, and no block waits for another. *)

\* the keywords the threads pass: plain words, for which a lone add is idempotent
ConcWords == { <<"a">>, <<"b">> }

\* a command handler enters add_category(cat_)
add_call(t, cat_) ==
    /\ cat_phase = "ready"
    /\ add_pc[t] = "idle"
    /\ new_index(cat) + Cardinality({u \in Threads : add_pc[u] \in {"lookup", "allocate"}}) <= MaxCatKey
    /\ add_pc' = [add_pc EXCEPT ![t] = "lookup"]
    /\ add_kw' = [add_kw EXCEPT ![t] = cat_]
    /\ add_idx' = [add_idx EXCEPT ![t] = 0]
    /\ UNCHANGED <<catVars, imgVars, restVars, add_allocated>>

\* idx = self.get_index(category_), under the lock; if idx != 0: return idx
add_lookup(t) ==
    /\ add_pc[t] = "lookup"
    /\ LET idx == get_index(reverse_lookup, category_of(add_kw[t]))
       IN /\ add_idx' = [add_idx EXCEPT ![t] = idx]
          /\ add_pc' = [add_pc EXCEPT ![t] = IF idx # 0 THEN "done" ELSE "allocate"]
    /\ UNCHANGED <<catVars, imgVars, restVars, add_kw, add_allocated>>

\* the second "with self.lock:" block: allocate max + 1 and insert in both maps
add_allocate(t) ==
    /\ add_pc[t] = "allocate"
    /\ LET category_ == category_of(add_kw[t])
           idx == new_index(cat)
       IN /\ cat' = Put(cat, idx, unquote_plus(category_))
          /\ reverse_lookup' = MapPut(reverse_lookup, unquote_plus(category_), idx)
          /\ add_idx' = [add_idx EXCEPT ![t] = idx]
          /\ add_allocated' = add_allocated \cup {idx}
    /\ add_pc' = [add_pc EXCEPT ![t] = "append"]
    /\ UNCHANGED <<next_index, cat_file, cat_phase, cat_last, add_kw, imgVars, restVars>>

\* self.update_category(idx), under the lock; return idx
add_append(t) ==
    /\ add_pc[t] = "append"
    /\ cat_file' = Append(cat_file, category_row(cat, add_idx[t]))
    /\ add_pc' = [add_pc EXCEPT ![t] = "done"]
    /\ UNCHANGED <<cat, reverse_lookup, next_index, cat_phase, cat_last, add_kw, add_idx,
                   add_allocated, imgVars, restVars>>

\* the caller has the id and goes on
add_return(t) ==
    /\ add_pc[t] = "done"
    /\ add_pc' = [add_pc EXCEPT ![t] = "idle"]
    /\ UNCHANGED <<catVars, imgVars, restVars, add_kw, add_idx, add_allocated>>

SpecCatConcNext ==
    \/ read_categories
    \/ \E t \in Threads, w \in ConcWords : add_call(t, w)
    \/ \E t \in Threads : add_lookup(t)
    \/ \E t \in Threads : add_allocate(t)
    \/ \E t \in Threads : add_append(t)
    \/ \E t \in Threads : add_return(t)

SpecCatConc == SpecCatInit /\ [][SpecCatConcNext]_vars

\* C2: two threads that add the same keyword get the same id, and no two ids
\* allocated by the calls carry the same keyword.
C2_ConcurrentAddOneId ==
    /\ \A t1, t2 \in Threads :
          (add_pc[t1] = "done" /\ add_pc[t2] = "done"
              /\ Normalize(add_kw[t1]) = Normalize(add_kw[t2]))
          => add_idx[t1] = add_idx[t2]
    /\ \A i, j \in add_allocated :
          (Has(cat, i) /\ Has(cat, j) /\ Get(cat, i) = Get(cat, j)) => i = j

----------------------------------------------------------------------------
(* Categories and Image *)

\* d[k] of a dict whose __missing__ returns 0
GetOr0(d, k) == IF Has(d, k) THEN Get(d, k) ELSE 0

\* Categories.add_category: dict.get gives None for an absent key, and None != 0
Categories_add_category(d, category_, count_) ==
    LET exists == (~Has(d, category_)) \/ Get(d, category_) # 0
    IN IF exists THEN Put(d, category_, GetOr0(d, category_) + count_)
       ELSE Put(d, category_, count_)

\* Image.add_category, on the image's categories
Image_add_category(d, key_, count_) ==
    IF Has(d, key_) THEN Put(d, key_, Get(d, key_) + count_) ELSE Put(d, key_, count_)

Image(link_, url_, categories_) == [link_key |-> link_, url |-> url_, categories |-> categories_]

\* Image.serialize: id, url, then (category, count) for each key
RECURSIVE flat_pairs(_)
flat_pairs(d) ==
    IF d = <<>> THEN <<>> ELSE <<d[1][1], d[1][2]>> \o flat_pairs(Tail(d))

serialize(img) == <<img.link_key, img.url>> \o flat_pairs(img.categories)

\* the loop "for idx in range(2, len(row), 2)" of the readers, from field idx on,
\* with Categories.add_category
RECURSIVE row_categories(_, _, _)
row_categories(row, idx, d) ==
    IF idx + 1 > Len(row) THEN d
    ELSE row_categories(row, idx + 2, Categories_add_category(d, row[idx], row[idx + 1]))

\* the same loop of read_images for a repeated url, with Image.add_category
RECURSIVE row_merge(_, _, _)
row_merge(row, idx, d) ==
    IF idx + 1 > Len(row) THEN d
    ELSE row_merge(row, idx + 2, Image_add_category(d, row[idx], row[idx + 1]))

----------------------------------------------------------------------------
(* ImageDictionary *)

\* sorted(keys): insertion sort of a sequence of ids
RECURSIVE insert_sorted(_, _)
insert_sorted(s, x) ==
    IF s = <<>> THEN <<x>>
    ELSE IF x < Head(s) THEN <<x>> \o s ELSE <<Head(s)>> \o insert_sorted(Tail(s), x)

RECURSIVE sorted(_)
sorted(s) == IF s = <<>> THEN <<>> ELSE insert_sorted(sorted(SubSeq(s, 1, Len(s) - 1)), s[Len(s)])

\* the rows of a checkpoint that walks the dict in its own order
checkpoint_rows_unsorted(d) == [i \in 1..Len(d) |-> serialize(d[i][2])]

\* the rows checkpoint writes: every image, by ascending id
checkpoint_rows(d) == [i \in 1..Len(d) |-> serialize(Get(d, sorted(Keys(d))[i]))]

\* renumber_images that numbers the images in the dict's order, without sorted()
renumber_result_unsorted(d) ==
    LET renumbered == [i \in 1..Len(d) |-> <<i, [d[i][2] EXCEPT !.link_key = i]>>]
        written == SelectSeq(Keys(d), LAMBDA id : Has(renumbered, id))
    IN [images |-> renumbered,
        next |-> Len(d) + 1,
        rows |-> [i \in 1..Len(written) |-> serialize(Get(renumbered, written[i]))]]

\* renumber_images on the dict d: [images, next, rows]
renumber_result(d) ==
    LET sorted_keys == sorted(Keys(d))
        renumbered == [i \in 1..Len(d) |->
                          <<i, [Get(d, sorted_keys[i]) EXCEPT !.link_key = i]>>]
        \* the file is written from the old keys: "image = self.get(id)" for id in sorted_keys
        written == SelectSeq(sorted_keys, LAMBDA id : Has(renumbered, id))
    IN [images |-> renumbered,
        next |-> Len(d) + 1,
        rows |-> [i \in 1..Len(written) |-> serialize(Get(renumbered, written[i]))]]

\* the loop of read_images over the rows left
RECURSIVE readImageRows(_, _, _, _, _)
readImageRows(rows, d, url_map, next, dups) ==
    IF rows = <<>> THEN [images |-> d, next |-> next, dups |-> dups]
    ELSE LET row == Head(rows)
             id_ == row[1]
             url_ == row[2]
         IN IF url_ \notin DOMAIN url_map
            THEN readImageRows(Tail(rows),
                               Put(d, id_, Image(id_, url_, row_categories(row, 3, <<>>))),
                               MapPut(url_map, url_, id_),
                               IF id_ > next THEN id_ ELSE next, dups)
            ELSE LET first == url_map[url_]
                     image == Get(d, first)
                 IN readImageRows(Tail(rows),
                                  Put(d, first, [image EXCEPT !.categories =
                                                    row_merge(row, 3, image.categories)]),
                                  url_map, next, dups + 1)

\* read_images: [images, next, rows of the images file]
read_images_result(d, next, rows) ==
    LET r == readImageRows(rows, d, EmptyMap, next, 0)
    IN IF r.dups > 0
       THEN renumber_result(r.images)
       ELSE [images |-> r.images, next |-> r.next + 1, rows |-> rows]

\* ChannelData.__init__ reads the images file when it exists
read_images ==
    /\ img_phase = "new"
    /\ IF url_file.exists
       THEN LET r == read_images_result(images, next_image_id, url_file.rows)
            IN /\ images' = r.images
               /\ next_image_id' = r.next
               /\ url_file' = [url_file EXCEPT !.rows = r.rows]
               /\ img_last' = [NoImgCall EXCEPT !.op = "read", !.ret = Len(r.images)]
       ELSE /\ UNCHANGED <<images, next_image_id, url_file>>
            /\ img_last' = [NoImgCall EXCEPT !.op = "read"]
    /\ img_phase' = "ready"
    /\ UNCHANGED <<deleted_url_file, notImg>>

renumber_images ==
    /\ img_phase = "ready"
    /\ LET r == renumber_result(images)
       IN /\ images' = r.images
          /\ next_image_id' = r.next
          /\ url_file' = [exists |-> TRUE, rows |-> r.rows]
          /\ img_last' = [NoImgCall EXCEPT !.op = "renumber", !.ret = Len(r.images)]
    /\ UNCHANGED <<deleted_url_file, img_phase, notImg>>

\* find_image: the first key, in the dict's order, whose url contains url_
RECURSIVE find_image(_, _)
find_image(d, url_) ==
    IF d = <<>> THEN 0
    ELSE IF Contains(d[1][2].url, url_) THEN d[1][1] ELSE find_image(Tail(d), url_)

\* the dict after add_image stores the new Image under id_
add_image_dict(d, id_, url_) == Put(d, id_, Image(id_, url_, <<>>))

\* append_image: one more row in the images file
append_image(file, d, id_) ==
    IF Has(d, id_)
    THEN [exists |-> TRUE, rows |-> Append(file.rows, serialize(Get(d, id_)))]
    ELSE file

add_image(url_) ==
    /\ img_phase = "ready"
    /\ next_image_id <= MaxImageId
    /\ images' = add_image_dict(images, next_image_id, url_)
    /\ next_image_id' = next_image_id + 1
    /\ url_file' = append_image(url_file, images', next_image_id)
    /\ img_last' = [NoImgCall EXCEPT !.op = "add", !.ret = next_image_id]
    /\ UNCHANGED <<deleted_url_file, img_phase, notImg>>

\* delete_image(id_) on (d, images file, deleted images file); ret 1 is True
delete_image_result(d, file, deleted, id_) ==
    IF Has(d, id_)
    THEN LET d2 == Del(d, id_)
         IN [images |-> d2,
             deleted |-> [exists |-> TRUE, rows |-> Append(deleted.rows, serialize(Get(d, id_)))],
             url_file |-> [exists |-> TRUE, rows |-> checkpoint_rows(d2)],
             ret |-> 1]
    ELSE [images |-> d, deleted |-> deleted, url_file |-> file, ret |-> 0]

delete_image(id_) ==
    /\ img_phase = "ready"
    /\ Has(images, id_) => Len(deleted_url_file.rows) < MaxDeleted
    /\ LET r == delete_image_result(images, url_file, deleted_url_file, id_)
       IN /\ images' = r.images
          /\ deleted_url_file' = r.deleted
          /\ url_file' = r.url_file
          /\ img_last' = [NoImgCall EXCEPT !.op = "delete", !.id = id_, !.ret = r.ret]
    /\ UNCHANGED <<next_image_id, img_phase, notImg>>

\* the loop of restore_image over the rows of the deleted images file;
\* id_ is the local the loop compares with and reassigns
RECURSIVE restoreRows(_, _, _, _, _, _, _)
restoreRows(rows, id_, d, next, file, kept, restored_id) ==
    IF rows = <<>>
    THEN [images |-> d, next |-> next, url_file |-> file, kept |-> kept, ret |-> restored_id]
    ELSE LET row == Head(rows)
         IN IF id_ = row[1]
            THEN IF ~Has(d, id_)
                 THEN restoreRows(Tail(rows), id_,
                                  Put(d, id_, Image(id_, row[2], row_categories(row, 3, <<>>))),
                                  next, file, kept, id_)
                 ELSE LET d2 == Put(d, next, Image(next, row[2], <<>>))
                      IN restoreRows(Tail(rows), next, d2, next + 1,
                                     append_image(file, d2, next), kept, next)
            ELSE restoreRows(Tail(rows), id_, d, next, file, Append(kept, row), restored_id)

\* rows.sort(key=lambda x: int(x[0])): a stable sort by id
RECURSIVE insert_row(_, _)
insert_row(s, r) ==
    IF s = <<>> THEN <<r>>
    ELSE IF r[1] < Head(s)[1] THEN <<r>> \o s ELSE <<Head(s)>> \o insert_row(Tail(s), r)

RECURSIVE sort_rows(_)
sort_rows(s) ==
    IF s = <<>> THEN <<>> ELSE insert_row(sort_rows(SubSeq(s, 1, Len(s) - 1)), s[Len(s)])

\* restore_image that writes back none of the rows it read
restore_image_drops_rows(d, next, file, deleted, id_) ==
    IF deleted.exists
    THEN LET r == restoreRows(deleted.rows, id_, d, next, file, <<>>, -1)
         IN [images |-> r.images, next |-> r.next, url_file |-> r.url_file,
             deleted |-> [exists |-> TRUE, rows |-> <<>>], ret |-> r.ret]
    ELSE [images |-> d, next |-> next, url_file |-> file, deleted |-> deleted, ret |-> -1]

\* restore_image(id_) on (d, next, images file, deleted images file)
restore_image_result(d, next, file, deleted, id_) ==
    IF deleted.exists
    THEN LET r == restoreRows(deleted.rows, id_, d, next, file, <<>>, -1)
         IN [images |-> r.images, next |-> r.next, url_file |-> r.url_file,
             deleted |-> [exists |-> TRUE, rows |-> sort_rows(r.kept)], ret |-> r.ret]
    ELSE [images |-> d, next |-> next, url_file |-> file, deleted |-> deleted, ret |-> -1]

restore_image(id_) ==
    /\ img_phase = "ready"
    /\ LET r == restore_image_result(images, next_image_id, url_file, deleted_url_file, id_)
       IN /\ r.next <= MaxImageId + 1
          /\ images' = r.images
          /\ next_image_id' = r.next
          /\ url_file' = r.url_file
          /\ deleted_url_file' = r.deleted
          /\ img_last' = [NoImgCall EXCEPT !.op = "restore", !.id = id_, !.ret = r.ret]
    /\ UNCHANGED <<img_phase, notImg>>

\* Image.add_category(cat_id, 1) on a live image, as the add and addkeys commands do
image_add_category(id_, cat_id) ==
    /\ img_phase = "ready"
    /\ Has(images, id_)
    /\ GetOr0(Get(images, id_).categories, cat_id) < MaxVotes
    /\ images' = Put(images, id_, [Get(images, id_) EXCEPT !.categories =
                                      Image_add_category(@, cat_id, 1)])
    /\ img_last' = [NoImgCall EXCEPT !.op = "vote", !.id = id_]
    /\ UNCHANGED <<next_image_id, url_file, deleted_url_file, img_phase, notImg>>

\* Image.has_category: the key is in the image's categories
has_category(img, key_) == Has(img.categories, key_)

\* the inner loop without its break: the key is appended for every category had
RECURSIVE match_cats_no_break(_, _, _)
match_cats_no_break(e, cats, i) ==
    IF i > Len(cats) THEN <<>>
    ELSE IF Has(e[2].categories, cats[i]) THEN <<e[1]>> \o match_cats_no_break(e, cats, i + 1)
    ELSE match_cats_no_break(e, cats, i + 1)

\* the inner loop of find_matches over cats from position i, for one item of the
\* dict: the key is appended at the first category the image has, then break
RECURSIVE match_cats(_, _, _)
match_cats(e, cats, i) ==
    IF i > Len(cats) THEN <<>>
    ELSE IF has_category(e[2], cats[i]) THEN <<e[1]>>
    ELSE match_cats(e, cats, i + 1)

\* the outer loop of find_matches over the items of the dict
RECURSIVE match_items(_, _)
match_items(d, cats) ==
    IF d = <<>> THEN <<>> ELSE match_cats(d[1], cats, 1) \o match_items(Tail(d), cats)

find_matches(d, cats) ==
    IF Len(cats) > 0 THEN match_items(d, cats) ELSE <<>>

Urls == { <<"u">>, <<"u", "v">> }

\* the category ids on images
ImgCats == {1}

\* the images file at start: none (a new channel), one image, an image with a vote,
\* two rows of one url (merged and renumbered by read_images), two images
StartImageFiles ==
    { NoFile,
      [exists |-> TRUE, rows |-> << <<1, <<"u">>>> >>],
      [exists |-> TRUE, rows |-> << <<2, <<"u", "v">>, 1, 1>> >>],
      [exists |-> TRUE, rows |-> << <<1, <<"u">>, 1, 1>>, <<2, <<"u">>, 1, 1>> >>],
      [exists |-> TRUE, rows |-> << <<1, <<"u">>>>, <<2, <<"u", "v">>, 1, 1>> >>] }

\* the deleted images file at start: none, or a row left by an earlier run
StartDeletedFiles ==
    { NoFile,
      [exists |-> TRUE, rows |-> << <<1, <<"u", "v">>, 1, 1>> >>] }

ImgInit ==
    /\ images = <<>>
    /\ next_image_id = 1
    /\ url_file \in StartImageFiles
    /\ deleted_url_file \in StartDeletedFiles
    /\ img_phase = "new"
    /\ img_last = NoImgCall

CatIdle ==
    /\ cat = <<>>
    /\ reverse_lookup = EmptyMap
    /\ next_index = 1
    /\ cat_file = <<>>
    /\ cat_phase = "new"
    /\ cat_last = NoCall

SpecImgInit == ImgInit /\ CatIdle /\ ConcInit /\ RestIdle

SpecImgNext ==
    \/ read_images
    \/ renumber_images
    \/ \E u \in Urls : add_image(u)
    \/ \E i \in 1..MaxImageId : delete_image(i)
    \/ \E i \in 1..MaxImageId : restore_image(i)
    \/ \E i \in 1..MaxImageId, c \in ImgCats : image_add_category(i, c)

SpecImg == SpecImgInit /\ [][SpecImgNext]_vars

----------------------------------------------------------------------------
(* Claims on the ImageDictionary (SpecImg) *)

\* the category-to-vote map of an image, without the order of its keys
SameVotes(c1, c2) ==
    /\ KeySet(c1) = KeySet(c2)
    /\ \A k \in KeySet(c1) : Get(c1, k) = Get(c2, k)

\* C4: for every live image id, delete(id) immediately followed by restore(id)
\* returns id and leaves a live image at id with the url and the
\* category-to-vote map the image had before the delete.
C4_DeleteRestoreRoundTrip ==
    img_phase = "ready" =>
        \A id \in KeySet(images) :
            LET before == Get(images, id)
                del == delete_image_result(images, url_file, deleted_url_file, id)
                res == restore_image_result(del.images, next_image_id, del.url_file,
                                            del.deleted, id)
            IN /\ res.ret = id
               /\ Has(res.images, id)
               /\ Get(res.images, id).url = before.url
               /\ SameVotes(Get(res.images, id).categories, before.categories)

\* C8: add(url) twice with the same url: find_image(url) after the first add and
\* find_image(url) after the second add give the same id.
C8_AddTwiceSameFind ==
    img_phase = "ready" =>
        \A u \in Urls :
            LET d1 == add_image_dict(images, next_image_id, u)
                d2 == add_image_dict(d1, next_image_id + 1, u)
            IN find_image(d1, u) = find_image(d2, u)

----------------------------------------------------------------------------
(* find_matches over drawn stores (SpecFind) *)

MaxFindImages == 2
MaxQuery == 2

\* the category ids on the images of the drawn stores, and the ids asked for
\* (3 is on no image)
FindCats == {1, 2}
QueryCats == {1, 2, 3}

RECURSIVE SeqsUpTo(_, _)
SeqsUpTo(S, n) ==
    IF n = 0 THEN { <<>> }
    ELSE LET shorter == SeqsUpTo(S, n - 1)
         IN shorter \cup { Append(q, x) : q \in {t \in shorter : Len(t) = n - 1}, x \in S }

Range(q) == { q[i] : i \in 1..Len(q) }

Distinct(q) == \A i, j \in 1..Len(q) : i # j => q[i] # q[j]

\* the categories of an image: distinct category ids in any order, one vote each
FindCategories ==
    { [i \in 1..Len(q) |-> <<q[i], 1>>] :
        q \in {t \in SeqsUpTo(FindCats, Cardinality(FindCats)) : Distinct(t)} }

\* a store: images under distinct ids in any order of insertion
FindStores ==
    UNION { { [i \in 1..Len(ks) |-> <<ks[i], Image(ks[i], <<"u">>, cs[i])>>] :
                cs \in [1..Len(ks) -> FindCategories] } :
            ks \in {t \in SeqsUpTo(1..MaxFindImages, MaxFindImages) : Distinct(t)} }

FindInit ==
    /\ images \in FindStores
    /\ next_image_id = MaxFindImages + 1
    /\ url_file = NoFile
    /\ deleted_url_file = NoFile
    /\ img_phase = "ready"
    /\ img_last = NoImgCall

\* a call of find_matches(cats) on the store
find_matches_call(cats) ==
    /\ img_phase = "ready"
    /\ img_last' = [NoImgCall EXCEPT !.op = "find_matches", !.cats = cats,
                                     !.matches = find_matches(images, cats)]
    /\ UNCHANGED <<images, next_image_id, url_file, deleted_url_file, img_phase, notImg>>

SpecFindInit == FindInit /\ CatIdle /\ ConcInit /\ RestIdle

SpecFindNext == \E cats \in SeqsUpTo(QueryCats, MaxQuery) : find_matches_call(cats)

SpecFind == SpecFindInit /\ [][SpecFindNext]_vars

\* C5: find_matches(cats) returns exactly the ids of the live images whose
\* category map has at least one member of cats, each id once, in the order of
\* the store; for an empty cats it returns no ids.
C5_FindMatchesExact ==
    img_last.op = "find_matches" =>
        LET r == img_last.matches
            cats == img_last.cats
        IN /\ Range(r) = { id \in KeySet(images) :
                             \E c \in Range(cats) : c \in KeySet(Get(images, id).categories) }
           /\ Distinct(r)
           /\ \A i, j \in 1..Len(r) : i < j => Idx(images, r[i]) < Idx(images, r[j])
           /\ cats = <<>> => r = <<>>

\* an image with both of the categories asked for is matched, another image
\* with neither is not
C5_Witness ==
    /\ img_last.op = "find_matches"
    /\ Len(img_last.cats) = 2
    /\ img_last.cats[1] # img_last.cats[2]
    /\ Len(img_last.matches) = 1
    /\ Len(images) = 2
    /\ \A c \in Range(img_last.cats) :
           has_category(Get(images, img_last.matches[1]), c)

----------------------------------------------------------------------------
(* ChannelData.run_housekeeping after the stores are read (SpecDup) *)

MaxDupVotes == 2

\* the loop "for id in catids" from position i: c is categories (and updated_cats,
\* the same object), catids the list of its keys taken before the loop
RECURSIVE replace_cats(_, _, _, _)
replace_cats(c, catids, repl, i) ==
    IF i > Len(catids) THEN c
    ELSE LET id == catids[i]
         IN IF id \in DOMAIN repl
            THEN LET count == Get(c, id)
                     c2 == IF repl[id] \in Range(catids)
                           THEN Put(c, repl[id], Get(c, repl[id]) + count)
                           ELSE Put(c, repl[id], count)
                 IN replace_cats(Del(c2, id), catids, repl, i + 1)
            ELSE replace_cats(c, catids, repl, i + 1)

\* updated_image: some category of the image is replaced
updated_image(img, repl) == KeySet(img.categories) \cap DOMAIN repl # {}

replaced_image(img, repl) ==
    [img EXCEPT !.categories = replace_cats(@, Keys(@), repl, 1)]

\* remove_duplicate_categories on (d, images file): [images, url_file, ret]
remove_duplicate_categories_result(d, file, repl) ==
    LET d2 == [i \in 1..Len(d) |-> <<d[i][1], replaced_image(d[i][2], repl)>>]
        need_checkpoint == \E i \in 1..Len(d) : updated_image(d[i][2], repl)
    IN [images |-> d2,
        url_file |-> IF need_checkpoint
                     THEN [exists |-> TRUE, rows |-> checkpoint_rows(d2)]
                     ELSE file,
        ret |-> need_checkpoint]

\* the reader of remove_duplicate_deleted_image_categories: img_dict[id_] = image
RECURSIVE readDeletedRows(_, _)
readDeletedRows(rows, img_dict) ==
    IF rows = <<>> THEN img_dict
    ELSE LET row == Head(rows)
         IN readDeletedRows(Tail(rows),
                            Put(img_dict, row[1],
                                Image(row[1], row[2], row_categories(row, 3, <<>>))))

\* its loop over img_dict from position i: "self[image_id] = image" puts every
\* updated image of the deleted images file in the dict d of the live images
RECURSIVE putUpdated(_, _, _, _)
putUpdated(d, img_dict, repl, i) ==
    IF i > Len(img_dict) THEN d
    ELSE putUpdated(IF updated_image(img_dict[i][2], repl)
                    THEN Put(d, img_dict[i][1], replaced_image(img_dict[i][2], repl))
                    ELSE d,
                    img_dict, repl, i + 1)

\* remove_duplicate_deleted_image_categories on (d, deleted images file):
\* [images, deleted, ret]
remove_duplicate_deleted_result(d, deleted, repl) ==
    IF deleted.exists
    THEN LET img_dict == readDeletedRows(deleted.rows, <<>>)
             need_checkpoint == \E i \in 1..Len(img_dict) : updated_image(img_dict[i][2], repl)
             img_dict2 == [i \in 1..Len(img_dict) |->
                              <<img_dict[i][1], replaced_image(img_dict[i][2], repl)>>]
         IN [images |-> putUpdated(d, img_dict, repl, 1),
             deleted |-> IF need_checkpoint
                         THEN [deleted EXCEPT !.rows = checkpoint_rows(img_dict2)]
                         ELSE deleted,
             ret |-> need_checkpoint]
    ELSE [images |-> d, deleted |-> deleted, ret |-> FALSE]

\* ChannelData.run_housekeeping, the last step of ChannelData.__init__
run_housekeeping ==
    /\ cat_phase = "ready"
    /\ img_phase = "ready"
    /\ LET f == find_duplicates_result(cat, cat_file)
           r1 == remove_duplicate_categories_result(images, url_file, f.repl)
           r2 == remove_duplicate_deleted_result(r1.images, deleted_url_file, f.repl)
       IN /\ cat' = f.cat
          /\ cat_file' = f.file
          /\ cat_last' = [NoCall EXCEPT !.op = "find_duplicates", !.repl = f.repl]
          /\ IF DOMAIN f.repl # {}
             THEN /\ images' = r2.images
                  /\ url_file' = r1.url_file
                  /\ deleted_url_file' = r2.deleted
                  /\ img_last' = [NoImgCall EXCEPT !.op = "remove_duplicate_categories",
                                                   !.ret = IF r1.ret THEN 1 ELSE 0]
             ELSE /\ UNCHANGED <<images, url_file, deleted_url_file>>
                  /\ img_last' = NoImgCall
    /\ cat_phase' = "kept"
    /\ img_phase' = "kept"
    /\ UNCHANGED <<reverse_lookup, next_index, next_image_id, concVars, restVars>>

\* the categories files at start: three ids of one keyword, two ids of one
\* keyword, with or without another keyword, no repeated keyword
DupCatFiles ==
    { << <<1, <<"a">>>>, <<2, <<"a">>>>, <<3, <<"a">>>> >>,
      << <<1, <<"a">>>>, <<2, <<"a">>>> >>,
      << <<1, <<"a">>>>, <<2, <<"b">>>>, <<3, <<"a">>>> >>,
      << <<1, <<"b">>>>, <<2, <<"a">>>>, <<3, <<"a">>>> >>,
      << <<1, <<"a">>>>, <<2, <<"b">>>> >> }

\* the categories of the image of a row: distinct category ids in any order,
\* each with 1..MaxDupVotes votes, as row fields
DupRowCategories ==
    UNION { { flat_pairs([i \in 1..Len(q) |-> <<q[i], n[i]>>]) :
                n \in [1..Len(q) -> 1..MaxDupVotes] } :
            q \in {t \in SeqsUpTo({1, 2, 3}, 3) : Distinct(t)} }

DupImageFiles ==
    { NoFile } \cup
    { [exists |-> TRUE, rows |-> << <<1, <<"u">>>> \o c >>] : c \in DupRowCategories }

DupDeletedFiles ==
    { NoFile,
      [exists |-> TRUE, rows |-> << <<1, <<"u", "v">>, 1, 1, 2, 1>> >>],
      [exists |-> TRUE, rows |-> << <<2, <<"u", "v">>, 3, 1>> >>] }

DupInit ==
    /\ cat = <<>>
    /\ reverse_lookup = EmptyMap
    /\ next_index = 1
    /\ cat_file \in DupCatFiles
    /\ cat_phase = "new"
    /\ cat_last = NoCall
    /\ images = <<>>
    /\ next_image_id = 1
    /\ url_file \in DupImageFiles
    /\ deleted_url_file \in DupDeletedFiles
    /\ img_phase = "new"
    /\ img_last = NoImgCall

SpecDupInit == DupInit /\ ConcInit /\ RestIdle

SpecDupNext ==
    \/ read_categories
    \/ read_images
    \/ run_housekeeping

SpecDup == SpecDupInit /\ [][SpecDupNext]_vars

RECURSIVE SumVotes(_, _)
SumVotes(c, ids) ==
    IF ids = {} THEN 0
    ELSE LET id == CHOOSE x \in ids : TRUE
         IN GetOr0(c, id) + SumVotes(c, ids \ {id})

\* C3: with the replacements of find_duplicates, remove_duplicate_categories
\* leaves on every live image, for every canonical id c, the former count of c
\* plus the former counts of every old id that maps to c; no old id stays on the
\* image; the counts of all other categories are unchanged.
C3_DuplicateVotesSummed ==
    (cat_phase = "ready" /\ img_phase = "ready") =>
        LET repl == find_duplicates_result(cat, cat_file).repl
            r == remove_duplicate_categories_result(images, url_file, repl)
        IN \A id \in KeySet(images) :
               LET before == Get(images, id).categories
                   after == Get(r.images, id).categories
               IN /\ \A c \in { repl[old] : old \in DOMAIN repl } :
                         GetOr0(after, c) =
                             GetOr0(before, c)
                             + SumVotes(before, { old \in DOMAIN repl : repl[old] = c })
                  /\ \A old \in DOMAIN repl : ~Has(after, old)
                  /\ \A c \in KeySet(before) \ DOMAIN repl :
                         c \notin { repl[old] : old \in DOMAIN repl } =>
                             Has(after, c) /\ Get(after, c) = Get(before, c)

----------------------------------------------------------------------------
(* Autoplay (SpecAuto) *)

MaxDelay == 2

\* the lists of image ids autoplay is turned on with
Snapshots == { <<5>>, <<2, 5>>, <<2, 5, 9>>, <<5, 9, 2>> }

\* set_autoplay: the fields after the call
set_autoplay_result(state_, delay_, sequential_, count_up_, loop_, image_keys) ==
    LET a == [autoplay |-> state_, delay_ |-> delay_, sequential_ |-> sequential_,
              loop_ |-> loop_, count_up_ |-> count_up_, count_ |-> 0, cur_id_ |-> 0,
              image_keys |-> <<>>]
    IN IF Len(image_keys) > 0
       THEN [a EXCEPT !.image_keys = image_keys,
                      !.cur_id_ = IF ~count_up_ THEN Len(image_keys) ELSE 0,
                      !.count_ = delay_]
       ELSE a

\* set_autoplay(False), with the defaults of the other parameters
set_autoplay_off == set_autoplay_result(FALSE, DefaultDelay, FALSE, TRUE, FALSE, <<>>)

\* fetch_next_id that takes no notice of loop_
fetch_next_id_ignores_loop(a, choice) ==
    IF a.sequential_
    THEN IF a.count_up_
         THEN IF a.cur_id_ + 1 >= Len(a.image_keys)
              THEN [a |-> set_autoplay_off, ret |-> -1, raised |-> FALSE]
              ELSE [a |-> [a EXCEPT !.cur_id_ = a.cur_id_ + 1],
                    ret |-> a.image_keys[a.cur_id_ + 1], raised |-> FALSE]
         ELSE IF a.cur_id_ - 1 < 0
              THEN [a |-> set_autoplay_off, ret |-> -1, raised |-> FALSE]
              ELSE [a |-> [a EXCEPT !.cur_id_ = a.cur_id_ - 1],
                    ret |-> a.image_keys[a.cur_id_], raised |-> FALSE]
    ELSE IF a.image_keys = <<>>
         THEN [a |-> a, ret |-> 0, raised |-> TRUE]
         ELSE [a |-> a, ret |-> choice, raised |-> FALSE]

\* fetch_next_id on the fields a: [a, ret, raised]; choice is what random.choice
\* gives; image_keys[cur_id_] is the element cur_id_ + 1 of the sequence
fetch_next_id_result(a, choice) ==
    IF a.sequential_
    THEN IF a.count_up_
         THEN LET cur_id == a.image_keys[a.cur_id_ + 1]
                  next == a.cur_id_ + 1
              IN IF next >= Len(a.image_keys)
                 THEN IF a.loop_
                      THEN [a |-> [a EXCEPT !.cur_id_ = 0], ret |-> cur_id, raised |-> FALSE]
                      ELSE [a |-> set_autoplay_off, ret |-> -1, raised |-> FALSE]
                 ELSE [a |-> [a EXCEPT !.cur_id_ = next], ret |-> cur_id, raised |-> FALSE]
         ELSE LET prev == a.cur_id_ - 1
              IN IF prev < 0
                 THEN IF a.loop_
                      THEN [a |-> [a EXCEPT !.cur_id_ = Len(a.image_keys) - 1],
                            ret |-> a.image_keys[Len(a.image_keys)], raised |-> FALSE]
                      ELSE [a |-> set_autoplay_off, ret |-> -1, raised |-> FALSE]
                 ELSE [a |-> [a EXCEPT !.cur_id_ = prev],
                       ret |-> a.image_keys[prev + 1], raised |-> FALSE]
    ELSE IF a.image_keys = <<>>
         THEN [a |-> a, ret |-> 0, raised |-> TRUE]    \* random.choice([]): IndexError
         ELSE [a |-> a, ret |-> choice, raised |-> FALSE]

\* show_next_image on the fields a: [a, ret]
show_next_image_result(a) ==
    IF a.count_ + 1 >= a.delay_
    THEN [a |-> [a EXCEPT !.count_ = 0], ret |-> TRUE]
    ELSE [a |-> [a EXCEPT !.count_ = a.count_ + 1], ret |-> FALSE]

\* the call of set_autoplay that on_autoplay makes
set_autoplay(state_, delay_, sequential_, count_up_, loop_, image_keys) ==
    /\ autoplay' = set_autoplay_result(state_, delay_, sequential_, count_up_, loop_, image_keys)
    /\ auto_last' = [NoAutoCall EXCEPT !.op = "set_autoplay"]
    /\ UNCHANGED <<catVars, concVars, cmdVars, chkVars, imgVars, gameVars>>

\* autoplay_callback, once a second; get_game_mode() is False as long as no
\* automatic game is started
autoplay_callback ==
    /\ autoplay.autoplay
    /\ ~(gameplay.autogame /\ gameplay.game_on)
    /\ LET shown == show_next_image_result(autoplay)
       IN IF shown.ret
          THEN IF Len(shown.a.image_keys) > 0
               THEN \E choice \in (IF shown.a.sequential_ THEN {0} ELSE Range(shown.a.image_keys)) :
                        LET r == fetch_next_id_result(shown.a, choice)
                        IN /\ autoplay' = r.a
                           /\ auto_last' = [NoAutoCall EXCEPT !.op = "fetch_next_id", !.ret = r.ret]
               ELSE /\ autoplay' = set_autoplay_off
                    /\ auto_last' = [NoAutoCall EXCEPT !.op = "set_autoplay"]
          ELSE /\ autoplay' = shown.a
               /\ auto_last' = [NoAutoCall EXCEPT !.op = "show_next_image"]
    /\ UNCHANGED <<catVars, concVars, cmdVars, chkVars, imgVars, gameVars>>

SpecAutoInit == AutoIdle /\ GameIdle /\ CmdIdle /\ ChkIdle /\ CatIdle /\ ConcInit /\ ImgIdle

SpecAutoNext ==
    \/ \E delay_ \in 1..MaxDelay, sequential_ \in BOOLEAN, count_up_ \in BOOLEAN,
          loop_ \in BOOLEAN, image_keys \in Snapshots :
           set_autoplay(TRUE, delay_, sequential_, count_up_, loop_, image_keys)
    \/ set_autoplay(FALSE, DefaultDelay, FALSE, TRUE, FALSE, <<>>)
    \/ autoplay_callback

SpecAuto == SpecAutoInit /\ [][SpecAutoNext]_vars

\* the fields and the result of the k-th of k calls of fetch_next_id in a row
RECURSIVE nth_fetch(_, _)
nth_fetch(a, k) ==
    IF k = 1 THEN fetch_next_id_result(a, 0)
    ELSE fetch_next_id_result(nth_fetch(a, k - 1).a, 0)

\* C6: once autoplay is enabled in sequential, count-up, non-looping mode over
\* n ids, the first n calls of fetch_next_id return the n ids in order with
\* autoplay still enabled, and call n + 1 returns -1 and disables autoplay.
C6_SequentialReturnsAll ==
    (auto_last.op = "set_autoplay" /\ autoplay.autoplay /\ autoplay.sequential_
        /\ autoplay.count_up_ /\ ~autoplay.loop_) =>
        LET n == Len(autoplay.image_keys)
        IN /\ \A k \in 1..n :
                  LET r == nth_fetch(autoplay, k)
                  IN r.ret = autoplay.image_keys[k] /\ r.a.autoplay
           /\ LET r == nth_fetch(autoplay, n + 1)
              IN r.ret = -1 /\ ~r.a.autoplay

----------------------------------------------------------------------------
(* Scorecard and GamePlay (SpecGame) *)

MaxLoves == 2          \* the loves of one player on one image
MaxGameVotes == 4      \* no love takes a category of the image above this many votes
MaxCredits == 1        \* no round is settled once a player has more credited matches

CreatePoints == 15
FirstMatchPoints == 10
SecondMatchPoints == 5
ThirdMatchPoints == 2

\* str.lower, on the characters of the model
lowerChar(c) ==
    CASE c = "A" -> "a"
      [] c = "B" -> "b"
      [] OTHER -> c

lower(s) == [i \in 1..Len(s) |-> lowerChar(s[i])]

\* Scorecard.__init__
Scorecard ==
    [score |-> 0, create_cat_count |-> 0, first_match_count |-> 0,
     second_match_count |-> 0, third_match_count |-> 0, image_loves |-> <<>>]

\* Scorecard.update_loves
update_loves(sc, image_id_, loves) ==
    LET clean_loves == [i \in 1..Len(loves) |-> rstrip(lstrip(loves[i]))]
    IN [sc EXCEPT !.image_loves =
            IF ~Has(sc.image_loves, image_id_)
            THEN Put(sc.image_loves, image_id_, clean_loves)
            ELSE Put(sc.image_loves, image_id_, Get(sc.image_loves, image_id_) \o clean_loves)]

\* sorted(items, key=lambda x: x[1], reverse=True): by descending second
\* component, items of equal key in their former order
RECURSIVE insert_by_votes(_, _)
insert_by_votes(s, x) ==
    IF s = <<>> THEN <<x>>
    ELSE IF x[2] > Head(s)[2] THEN <<x>> \o s
    ELSE <<Head(s)>> \o insert_by_votes(Tail(s), x)

RECURSIVE sorted_by_votes(_)
sorted_by_votes(items) ==
    IF items = <<>> THEN <<>>
    ELSE insert_by_votes(sorted_by_votes(SubSeq(items, 1, Len(items) - 1)), items[Len(items)])

\* Scorecard.compute_score
compute_score(sc) ==
    [sc EXCEPT !.score = sc.create_cat_count * CreatePoints
                         + sc.first_match_count * FirstMatchPoints
                         + sc.second_match_count * SecondMatchPoints
                         + sc.third_match_count * ThirdMatchPoints]

\* Scorecard.update_scores: "v, id_1 = sorted_cats.pop(0)" unpacks the item
\* (category id, votes), so id_1, id_2, id_3 are the second components
Scorecard_update_scores(sc, d, rev, image_id_) ==
    \* "if image is None: return 0": the scorecard is left as it is
    IF ~Has(d, image_id_) THEN sc ELSE
    LET sorted_cats == sorted_by_votes(Get(d, image_id_).categories)
        id_1 == IF Len(sorted_cats) >= 1 THEN sorted_cats[1][2] ELSE -1
        id_2 == IF Len(sorted_cats) >= 2 THEN sorted_cats[2][2] ELSE -2
        id_3 == IF Len(sorted_cats) >= 3 THEN sorted_cats[3][2] ELSE -3
        loves == IF Has(sc.image_loves, image_id_) THEN Get(sc.image_loves, image_id_) ELSE <<>>
        matches(id) == Cardinality({i \in 1..Len(loves) : get_index(rev, loves[i]) = id})
    IN compute_score([sc EXCEPT !.first_match_count = @ + matches(id_1),
                                !.second_match_count = @ + matches(id_2),
                                !.third_match_count = @ + matches(id_3)])

\* GamePlay.update_scores: every player's scorecard
GamePlay_update_scores(players, d, rev, image_id_) ==
    [i \in 1..Len(players) |->
        <<players[i][1], Scorecard_update_scores(players[i][2], d, rev, image_id_)>>]

\* GamePlay.filter_loves
filter_loves(loves) ==
    LET stripped == [i \in 1..Len(loves) |-> rstrip(lstrip(loves[i]))]
    IN SelectSeq(stripped, LAMBDA l : Len(l) > 0)

\* the loop of add_loves without the test "if not image.has_category(cat_id)":
\* every love counts as a create
RECURSIVE love_loop_always_creates(_, _, _)
love_loop_always_creates(st, loves_, i) ==
    IF i > Len(loves_) THEN st
    ELSE LET r == add_category_result(st.cat, st.rev, st.file, lower(loves_[i]))
         IN love_loop_always_creates(
                [cat |-> r.cat, rev |-> r.rev, file |-> r.file,
                 categories |-> Image_add_category(st.categories, r.ret, 1),
                 creates |-> st.creates + 1],
                loves_, i + 1)

\* the loop of add_loves over loves_ from position i: st is
\* [cat, rev, file, categories (of the image), creates]
RECURSIVE love_loop(_, _, _)
love_loop(st, loves_, i) ==
    IF i > Len(loves_) THEN st
    ELSE LET r == add_category_result(st.cat, st.rev, st.file, lower(loves_[i]))
         IN love_loop([cat |-> r.cat, rev |-> r.rev, file |-> r.file,
                       categories |-> Image_add_category(st.categories, r.ret, 1),
                       creates |-> IF ~Has(st.categories, r.ret)
                                   THEN st.creates + 1 ELSE st.creates],
                      loves_, i + 1)

GameReady == cat_phase = "ready" /\ img_phase = "ready"

\* on_game: the game is turned on
start_game ==
    /\ GameReady
    /\ ~gameplay.game_on
    /\ gameplay' = [gameplay EXCEPT !.game_on = TRUE, !.autogame = FALSE,
                                    !.current_image_id = 0, !.players = <<>>]
    /\ game_last' = [NoGameCall EXCEPT !.op = "start_game"]
    /\ UNCHANGED game_pc
    /\ UNCHANGED <<catVars, concVars, cmdVars, chkVars, imgVars, autoVars>>

\* next_image and the body of stop_game: checkpoint, update_scores, no current image
settled(g) ==
    IF g.current_image_id # 0
    THEN [g EXCEPT !.players = GamePlay_update_scores(g.players, images, reverse_lookup,
                                                     g.current_image_id),
                   !.current_image_id = 0]
    ELSE g

Credits(sc) == sc.first_match_count + sc.second_match_count + sc.third_match_count

CanSettle ==
    \A i \in 1..Len(gameplay.players) : Credits(gameplay.players[i][2]) <= MaxCredits

\* on_game: the game is turned off
stop_game ==
    /\ GameReady
    /\ gameplay.game_on
    /\ CanSettle
    /\ gameplay' = [settled(gameplay) EXCEPT !.game_on = FALSE]
    /\ url_file' = IF gameplay.current_image_id # 0
                   THEN [exists |-> TRUE, rows |-> checkpoint_rows(images)]
                   ELSE url_file
    /\ game_last' = [NoGameCall EXCEPT !.op = "stop_game"]
    /\ UNCHANGED game_pc
    /\ UNCHANGED <<images, next_image_id, deleted_url_file, img_phase, img_last,
                   catVars, concVars, cmdVars, chkVars, autoVars>>

\* on_next_image with an image id, or with none (image_id_ = -1): the round is
\* settled, then the image is made current; with no id and images in the store
\* the handler ends at the name "ramdom", which is not defined
on_next_image(image_id_) ==
    /\ GameReady
    /\ gameplay.game_on
    /\ CanSettle
    /\ images # <<>>
    /\ gameplay' = IF image_id_ > 0 /\ Has(images, image_id_)
                   THEN [settled(gameplay) EXCEPT !.current_image_id = image_id_]
                   ELSE settled(gameplay)
    /\ url_file' = IF gameplay.current_image_id # 0
                   THEN [exists |-> TRUE, rows |-> checkpoint_rows(images)]
                   ELSE url_file
    /\ game_last' = [NoGameCall EXCEPT !.op = "next_image"]
    /\ UNCHANGED game_pc
    /\ UNCHANGED <<images, next_image_id, deleted_url_file, img_phase, img_last,
                   catVars, concVars, cmdVars, chkVars, autoVars>>

\* on_love_image: filter_loves, then add_loves
on_love_image(nick_, loves) ==
    /\ GameReady
    /\ gameplay.game_on
    /\ LET loves_ == filter_loves(loves)
           id == gameplay.current_image_id
       IN IF Len(loves_) > 0 /\ id # 0
          THEN IF ~Has(images, id)
               \* "if image:" fails: the loves are kept on the scorecard, nothing else
               THEN /\ gameplay' = [gameplay EXCEPT !.players =
                           Put(@, nick_, update_loves(IF Has(gameplay.players, nick_)
                                                      THEN Get(gameplay.players, nick_)
                                                      ELSE Scorecard, id, loves_))]
                    /\ Len(Get(Get(gameplay'.players, nick_).image_loves, id)) <= MaxLoves
                    /\ UNCHANGED <<cat, reverse_lookup, cat_file, images>>
               ELSE
               LET sc == IF Has(gameplay.players, nick_)
                         THEN Get(gameplay.players, nick_) ELSE Scorecard
                   image == Get(images, id)
                   st == love_loop([cat |-> cat, rev |-> reverse_lookup, file |-> cat_file,
                                    categories |-> image.categories, creates |-> 0],
                                   loves_, 1)
                   sc2 == update_loves(sc, id, loves_)
               IN /\ Len(Get(sc2.image_loves, id)) <= MaxLoves
                  /\ \A i \in 1..Len(st.categories) : st.categories[i][2] <= MaxGameVotes
                  /\ gameplay' = [gameplay EXCEPT !.players =
                         Put(@, nick_, [sc2 EXCEPT !.create_cat_count = @ + st.creates])]
                  /\ cat' = st.cat
                  /\ reverse_lookup' = st.rev
                  /\ cat_file' = st.file
                  /\ images' = Put(images, id, [image EXCEPT !.categories = st.categories])
          ELSE UNCHANGED <<gameplay, cat, reverse_lookup, cat_file, images>>
    /\ game_last' = [NoGameCall EXCEPT !.op = "love", !.nick = nick_]
    /\ UNCHANGED game_pc
    /\ UNCHANGED <<next_index, cat_phase, cat_last, next_image_id, url_file,
                   deleted_url_file, img_phase, img_last, concVars, cmdVars, chkVars, autoVars>>

Nicks == { "p", "q" }

\* what players love
GameWords == { <<"a">>, <<"c">> }

GameCatFiles ==
    { << <<1, <<"a">>>>, <<2, <<"b">>>>, <<3, <<"c">>>> >>,
      << <<1, <<"a">>>>, <<2, <<"b">>>> >> }

\* one image, with votes on three categories (3, 2, 1), or on two with equal votes
GameImageFiles ==
    { [exists |-> TRUE, rows |-> << <<1, <<"u">>, 1, 3, 2, 2, 3, 1>> >>],
      [exists |-> TRUE, rows |-> << <<1, <<"u">>, 2, 1, 1, 1>> >>] }

GameInit ==
    /\ cat = <<>>
    /\ reverse_lookup = EmptyMap
    /\ next_index = 1
    /\ cat_file \in GameCatFiles
    /\ cat_phase = "new"
    /\ cat_last = NoCall
    /\ images = <<>>
    /\ next_image_id = 1
    /\ url_file \in GameImageFiles
    /\ deleted_url_file = NoFile
    /\ img_phase = "new"
    /\ img_last = NoImgCall

SpecGameInit == GameInit /\ ConcInit /\ AutoIdle /\ GameIdle /\ CmdIdle /\ ChkIdle

SpecGameNext ==
    \/ read_categories
    \/ read_images
    \/ start_game
    \/ stop_game
    \/ \E i \in {-1} \cup (1..MaxImageId) : on_next_image(i)
    \/ \E n \in Nicks, l \in SeqsUpTo(GameWords, MaxLoves) : on_love_image(n, l)

SpecGame == SpecGameInit /\ [][SpecGameNext]_vars

\* the ids of the categories of an image, most votes first
ranked_ids(img) == Keys(sorted_by_votes(img.categories))

\* the loves, among loves, of the category at position k of ranked
rank_matches(loves, ranked, k) ==
    IF Len(ranked) >= k
    THEN Cardinality({i \in 1..Len(loves) : get_index(reverse_lookup, loves[i]) = ranked[k]})
    ELSE 0

\* C7: settling the round on the current image adds, to every player's first /
\* second / third counter, the number of that player's loves on the image whose
\* category id is the id of the category with the most / second most / third
\* most votes, and credits nothing else.
C7_SettleCreditsByRank ==
    (GameReady /\ gameplay.current_image_id # 0) =>
        \A i \in 1..Len(gameplay.players) :
            LET id == gameplay.current_image_id
                sc == gameplay.players[i][2]
                sc2 == settled(gameplay).players[i][2]
                loves == IF Has(sc.image_loves, id) THEN Get(sc.image_loves, id) ELSE <<>>
                ranked == ranked_ids(Get(images, id))
            IN /\ sc2.first_match_count = sc.first_match_count + rank_matches(loves, ranked, 1)
               /\ sc2.second_match_count = sc.second_match_count + rank_matches(loves, ranked, 2)
               /\ sc2.third_match_count = sc.third_match_count + rank_matches(loves, ranked, 3)

----------------------------------------------------------------------------
(* Claims on find_duplicates (SpecDup) *)

\* no two ids of the dict d carry the same keyword
NoRepeatedKeyword(d) ==
    \A i, j \in 1..Len(d) : i # j => d[i][2] # d[j][2]

----------------------------------------------------------------------------
(* Claims on read_images *)

\* the votes for category c in the fields of a row, from field idx on
RECURSIVE RowVotes(_, _, _)
RowVotes(row, idx, c) ==
    IF idx + 1 > Len(row) THEN 0
    ELSE (IF row[idx] = c THEN row[idx + 1] ELSE 0) + RowVotes(row, idx + 2, c)

\* the votes for category c in all the rows with url w
RECURSIVE UrlVotes(_, _, _)
UrlVotes(rows, w, c) ==
    IF rows = <<>> THEN 0
    ELSE (IF Head(rows)[2] = w THEN RowVotes(Head(rows), 3, c) ELSE 0)
         + UrlVotes(Tail(rows), w, c)

RowCats(rows) == UNION { { rows[i][j] : j \in { k \in 3..Len(rows[i]) : k % 2 = 1 } } : i \in 1..Len(rows) }

FirstRowWith(rows, w) == CHOOSE i \in 1..Len(rows) : rows[i][2] = w /\ \A j \in 1..(i - 1) : rows[j][2] # w

\* what C12 states of the load of the rows into a new ImageDictionary
LoadMerges(rows) ==
    LET r == readImageRows(rows, <<>>, EmptyMap, 1, 0)
        d == r.images
        merged == \E i, j \in 1..Len(rows) : i < j /\ rows[i][2] = rows[j][2]
        final == read_images_result(<<>>, 1, rows)
    IN /\ \A i \in 1..Len(rows) :
              LET w == rows[i][2]
                  id == rows[FirstRowWith(rows, w)][1]
              IN /\ Cardinality({k \in 1..Len(d) : d[k][2].url = w}) = 1
                 /\ Has(d, id)
                 /\ Get(d, id).url = w
                 /\ \A c \in RowCats(rows) :
                        GetOr0(Get(d, id).categories, c) = UrlVotes(rows, w, c)
       /\ \A k \in 1..Len(d) : \E i \in 1..Len(rows) : rows[i][2] = d[k][2].url
       /\ merged <=> r.dups > 0
       /\ final.images = IF merged THEN renumber_result(d).images ELSE d

SharesUrl(rows) == \E i, j \in 1..Len(rows) : i < j /\ rows[i][2] = rows[j][2]

----------------------------------------------------------------------------
(* The commands on the images: add, delete, restore, renumber (SpecCmd) *)

\* on_add_image, first part: find_image(url); with an id found the command
\* ends ("url exists"), with none it goes on to add_image
cmd_find(t, url_) ==
    /\ img_phase = "ready"
    /\ cmd_pc[t] = "idle"
    /\ cmd_url' = [cmd_url EXCEPT ![t] = url_]
    /\ cmd_pc' = [cmd_pc EXCEPT ![t] = IF find_image(images, url_) # 0 THEN "idle" ELSE "add"]
    /\ img_last' = [NoImgCall EXCEPT !.op = "find", !.ret = find_image(images, url_)]
    /\ UNCHANGED <<images, next_image_id, url_file, deleted_url_file, img_phase,
                   catVars, concVars, autoVars, gameVars, chkVars>>

\* on_add_image, second part: add_image(url); no keyword follows the url
cmd_add(t) ==
    /\ cmd_pc[t] = "add"
    /\ next_image_id <= MaxImageId
    /\ images' = add_image_dict(images, next_image_id, cmd_url[t])
    /\ next_image_id' = next_image_id + 1
    /\ url_file' = append_image(url_file, images', next_image_id)
    /\ img_last' = [NoImgCall EXCEPT !.op = "add", !.ret = next_image_id]
    /\ cmd_pc' = [cmd_pc EXCEPT ![t] = "idle"]
    /\ UNCHANGED <<cmd_url, deleted_url_file, img_phase, catVars, concVars, autoVars, gameVars, chkVars>>

SpecCmdInit == ImgInit /\ CatIdle /\ ConcInit /\ RestIdle

SpecCmdNext ==
    \/ read_images
    \/ \E t \in Threads, u \in Urls : cmd_find(t, u)
    \/ \E t \in Threads : cmd_add(t)
    \/ \E i \in 1..MaxImageId : delete_image(i)
    \/ \E i \in 1..MaxImageId : restore_image(i)
    \/ renumber_images

SpecCmd == SpecCmdInit /\ [][SpecCmdNext]_vars

\* C13: no two live images have the same url.
C13_LiveUrlsUnique ==
    \A i, j \in 1..Len(images) : i # j => images[i][2].url # images[j][2].url

\* C12: the load of an images file in which several rows have the same url
\* gives one live image for every url of the file, under the id of the first
\* row with that url, its votes for every category being the sum over the rows
\* with that url, and renumbers if and only if it merged rows.
C12_LoadMergesSharedUrls ==
    (url_file.exists /\ SharesUrl(url_file.rows)) => LoadMerges(url_file.rows)

----------------------------------------------------------------------------
(* The image store from files with gaps in the ids (SpecStore) *)

MaxStoreId == 3
MaxStoreRows == 2

\* a row of an images file: id, url, then pairs of category and votes
StoreRows ==
    { <<i, u>> : i \in 1..MaxStoreId, u \in Urls }
    \cup { <<i, u, c, 1>> : i \in 1..MaxStoreId, u \in Urls, c \in ImgCats }

\* the images file at start: none, or rows with different ids in any order
StoreImageFiles ==
    { NoFile }
    \cup { [exists |-> TRUE, rows |-> rows] :
             rows \in { s \in SeqsUpTo(StoreRows, MaxStoreRows) :
                          \A i, j \in 1..Len(s) : i # j => s[i][1] # s[j][1] } }

StoreInit ==
    /\ images = <<>>
    /\ next_image_id = 1
    /\ url_file \in StoreImageFiles
    /\ deleted_url_file \in StartDeletedFiles
    /\ img_phase = "new"
    /\ img_last = NoImgCall

\* ImageDictionary.checkpoint: the images file is written again from the dict
checkpoint ==
    /\ img_phase = "ready"
    /\ url_file' = [exists |-> TRUE, rows |-> checkpoint_rows(images)]
    /\ img_last' = [NoImgCall EXCEPT !.op = "checkpoint",
                                     !.ret = IF Len(images) > 0 THEN 1 ELSE 0]
    /\ UNCHANGED <<images, next_image_id, deleted_url_file, img_phase, notImg>>

\* the bot starts again: a new ImageDictionary, which read_images then fills
restart ==
    /\ img_phase = "ready"
    /\ images' = <<>>
    /\ next_image_id' = 1
    /\ img_phase' = "new"
    /\ img_last' = NoImgCall
    /\ UNCHANGED <<url_file, deleted_url_file, notImg>>

SpecStoreInit == StoreInit /\ CatIdle /\ ConcInit /\ RestIdle

SpecStoreNext ==
    \/ read_images
    \/ renumber_images
    \/ \E i \in 1..MaxStoreId, c \in ImgCats : image_add_category(i, c)
    \/ checkpoint
    \/ restart

SpecStore == SpecStoreInit /\ [][SpecStoreNext]_vars

\* the k-th smallest key of the dict d
KthKey(d, k) == CHOOSE x \in KeySet(d) : Cardinality({ y \in KeySet(d) : y < x }) = k - 1

\* C14: renumber on a store of n live images leaves the ids 1..n, the image
\* with the k-th smallest old id under id k with its url and categories,
\* next_image_id n+1, and returns n.
C14_RenumberDense ==
    /\ img_phase = "ready" =>
          LET r == renumber_result(images)
              n == Len(images)
          IN /\ KeySet(r.images) = 1..n
             /\ Len(r.images) = n
             /\ r.next = n + 1
             /\ \A k \in 1..n :
                    /\ Get(r.images, k).link_key = k
                    /\ Get(r.images, k).url = Get(images, KthKey(images, k)).url
                    /\ Get(r.images, k).categories = Get(images, KthKey(images, k)).categories
    /\ img_last.op = "renumber" =>
          /\ KeySet(images) = 1..Len(images)
          /\ next_image_id = Len(images) + 1
          /\ img_last.ret = Len(images)

\* renumber has run on two images whose old ids had a gap (the file, written
\* from the old ids, misses a row), and the second one has votes
C14_Witness ==
    /\ img_last.op = "renumber"
    /\ img_last.ret = 2
    /\ Len(url_file.rows) < 2
    /\ images[2][2].categories # <<>>

\* C15: right after renumber the images file holds one row for every live
\* image, with its new id, url and votes: the rows a checkpoint of the
\* renumbered store writes.
C15_RenumberFileIsCheckpoint ==
    img_last.op = "renumber" => url_file.rows = checkpoint_rows(images)

\* C16: add_image returns an id that was not live before the call
\* (next_image_id is above every live id), stores there an image with the url
\* and no categories, and leaves every image that was live as it was.
C16_AddReturnsFreshId ==
    img_phase = "ready" =>
       /\ \A i \in KeySet(images) : next_image_id > i
       /\ \A u \in Urls :
             LET d == add_image_dict(images, next_image_id, u)
             IN /\ Get(d, next_image_id) = Image(next_image_id, u, <<>>)
                /\ \A i \in KeySet(images) : Has(d, i) /\ Get(d, i) = Get(images, i)

----------------------------------------------------------------------------
(* Delete and restore with the deleted images file of earlier runs (SpecQuar) *)

\* the rows an earlier run left in the deleted images file
QuarRows ==
    { <<i, <<"u">>>> : i \in 1..MaxImageId }
    \cup { <<i, <<"u", "v">>, c, 1>> : i \in 1..MaxImageId, c \in ImgCats }

\* the deleted images file at start: none, or rows in the order of the deletes,
\* where an id can come twice (deleted, renumbered, deleted again)
QuarFiles ==
    { NoFile }
    \cup { [exists |-> TRUE, rows |-> rows] : rows \in SeqsUpTo(QuarRows, MaxDeleted) }

QuarInit ==
    /\ images = <<>>
    /\ next_image_id = 1
    /\ url_file \in StartImageFiles
    /\ deleted_url_file \in QuarFiles
    /\ img_phase = "new"
    /\ img_last = NoImgCall

SpecQuarInit == QuarInit /\ CatIdle /\ ConcInit /\ RestIdle

SpecQuarNext ==
    \/ read_images
    \/ \E i \in 1..(MaxImageId + 1) : delete_image(i)
    \/ \E i \in 1..(MaxImageId + 1) : restore_image(i)

SpecQuar == SpecQuarInit /\ [][SpecQuarNext]_vars

\* the two sequences hold the same rows, each as many times
SameRows(a, b) ==
    \A row \in Range(a) \cup Range(b) :
        Cardinality({ i \in 1..Len(a) : a[i] = row }) = Cardinality({ i \in 1..Len(b) : b[i] = row })

IsQuarantined(id_) ==
    deleted_url_file.exists /\ \E i \in 1..Len(deleted_url_file.rows) : deleted_url_file.rows[i][1] = id_

\* C17: delete_image of an id that is not live returns False and restore_image
\* of an id with no row in the deleted images file, or with no such file,
\* returns -1; the live images, next_image_id and the quarantined rows stay.
C17_UnknownIdSentinel ==
    img_phase = "ready" =>
       \A id_ \in 1..(MaxImageId + 1) :
          /\ ~Has(images, id_) =>
                LET r == delete_image_result(images, url_file, deleted_url_file, id_)
                IN /\ r.ret = 0
                   /\ r.images = images
                   /\ r.url_file = url_file
                   /\ r.deleted.exists = deleted_url_file.exists
                   /\ SameRows(r.deleted.rows, deleted_url_file.rows)
          /\ ~IsQuarantined(id_) =>
                LET r == restore_image_result(images, next_image_id, url_file,
                                              deleted_url_file, id_)
                IN /\ r.ret = -1
                   /\ r.images = images
                   /\ r.next = next_image_id
                   /\ r.url_file = url_file
                   /\ r.deleted.exists = deleted_url_file.exists
                   /\ SameRows(r.deleted.rows, deleted_url_file.rows)

\* a restore of an id without a row has returned -1 while the deleted images
\* file holds rows of other ids and an image is live
C17_Witness ==
    /\ img_last.op = "restore"
    /\ img_last.ret = -1
    /\ Len(deleted_url_file.rows) = 2
    /\ Len(images) > 0

\* a delete of an id that is not live has returned False
C17_WitnessDelete ==
    /\ img_last.op = "delete"
    /\ img_last.ret = 0
    /\ Len(images) > 0

\* the rows of the deleted images file with the id, and the others
RowsOf(id_) == SelectSeq(deleted_url_file.rows, LAMBDA row : row[1] = id_)
RowsNotOf(id_) == SelectSeq(deleted_url_file.rows, LAMBDA row : row[1] # id_)

\* C18: restore_image of an id that has a quarantined row while an image is
\* live under that id returns an id that was not live, under which there is
\* now an image with the quarantined url and no categories, and leaves the
\* image under the requested id as it was.
C18_RestoreOccupiedFreshId ==
    img_phase = "ready" =>
       \A id_ \in 1..(MaxImageId + 1) :
          (IsQuarantined(id_) /\ Has(images, id_)) =>
             LET r == restore_image_result(images, next_image_id, url_file,
                                           deleted_url_file, id_)
             IN /\ ~Has(images, r.ret)
                /\ Has(r.images, r.ret)
                /\ Get(r.images, r.ret).categories = <<>>
                /\ \E i \in 1..Len(RowsOf(id_)) : Get(r.images, r.ret).url = RowsOf(id_)[i][2]
                /\ Get(r.images, id_) = Get(images, id_)

\* C19: restore_image takes out of the deleted images file only the rows with
\* the requested id and makes only those live: the rows of other ids are all
\* still in the file and no image of theirs has entered the live dict.
C19_RestoreOnlyRequestedId ==
    img_phase = "ready" =>
       \A id_ \in 1..(MaxImageId + 1) :
          LET r == restore_image_result(images, next_image_id, url_file,
                                        deleted_url_file, id_)
          IN deleted_url_file.exists =>
                /\ SameRows(SelectSeq(r.deleted.rows, LAMBDA row : row[1] # id_), RowsNotOf(id_))
                /\ Len(r.images) <= Len(images) + Len(RowsOf(id_))

\* the two category maps have the same keys with the same votes
SameMap(a, b) == KeySet(a) = KeySet(b) /\ \A k \in KeySet(a) : Get(a, k) = Get(b, k)

UrlsDistinct(d) == \A i, j \in 1..Len(d) : i # j => d[i][2].url # d[j][2].url

\* C20: checkpoint writes the images file as one row per live image by
\* ascending id, and read_images of that file into a new store gives back the
\* same ids with the same url and the same votes when the live urls differ.
C20_CheckpointLoadRoundTrip ==
    /\ img_phase = "ready" =>
          LET rows == checkpoint_rows(images)
              loaded == read_images_result(<<>>, 1, rows).images
          IN /\ Len(rows) = Len(images)
             /\ \A i, j \in 1..Len(rows) : i < j => rows[i][1] < rows[j][1]
             /\ \A i \in 1..Len(rows) :
                    /\ Has(images, rows[i][1])
                    /\ rows[i][2] = Get(images, rows[i][1]).url
                    /\ \A c \in ImgCats :
                           RowVotes(rows[i], 3, c) = GetOr0(Get(images, rows[i][1]).categories, c)
             /\ UrlsDistinct(images) =>
                    /\ KeySet(loaded) = KeySet(images)
                    /\ \A id_ \in KeySet(images) :
                           /\ Get(loaded, id_).url = Get(images, id_).url
                           /\ SameMap(Get(loaded, id_).categories, Get(images, id_).categories)
    /\ img_last.op = "checkpoint" => url_file.rows = checkpoint_rows(images)

\* a checkpoint has written two images of different urls, stored in the dict
\* with the larger id first, one of them with votes
C20_Witness ==
    /\ img_last.op = "checkpoint"
    /\ Len(images) = 2
    /\ images[1][1] > images[2][1]
    /\ UrlsDistinct(images)
    /\ \E i \in 1..2 : images[i][2].categories # <<>>

----------------------------------------------------------------------------
(* The automatic game: auto_start and the clock ticks (SpecAutoGame) *)

MaxRounds == 2         \* the rounds asked for with "game auto rounds n"
MaxGameDelay == 1      \* the delay asked for, in ticks
MaxPause == 1          \* the pause asked for, in ticks
MaxRound == 4          \* no tick once current_round has come this far

\* on_game with "auto": GamePlay.auto_start, whatever the state of the game
auto_start(rounds_, delay_, pause_) ==
    /\ GameReady
    /\ gameplay' = [gameplay EXCEPT !.rounds = rounds_, !.delay = delay_, !.pause = pause_,
                                    !.current_image_id = 0, !.current_round = 0,
                                    !.current_pause = 0, !.current_delay = 0,
                                    !.autogame = TRUE, !.game_on = TRUE]
    /\ game_last' = [NoGameCall EXCEPT !.op = "auto_start"]
    /\ UNCHANGED game_pc
    /\ UNCHANGED <<catVars, concVars, cmdVars, chkVars, imgVars, autoVars>>

\* "('.mp4' in url) or ('.webm' in url)"
is_video(url) ==
    Contains(url, <<".", "m", "p", "4">>) \/ Contains(url, <<".", "w", "e", "b", "m">>)

\* the images random.choice can end the loop of the tick with: any image that is
\* no video; 0 when the loop gives up or there is no image
TickChoices(d) ==
    { d[i][1] : i \in { k \in 1..Len(d) : ~is_video(d[k][2].url) } }
    \cup (IF \A k \in 1..Len(d) : ~is_video(d[k][2].url) THEN {} ELSE {0})
    \cup (IF d = <<>> THEN {0} ELSE {})

\* process_clocktick once the pause and the delay are over: the round is
\* settled, and the game is over when no round remains
tick_settle(g) ==
    LET rounds_remaining == g.rounds - g.current_round
        g2 == [settled(g) EXCEPT !.current_image_id = 0, !.current_pause = 0,
                                 !.current_delay = 0]
    IN IF rounds_remaining = 0
       THEN [g2 EXCEPT !.autogame = FALSE, !.game_on = FALSE]
       ELSE g2

\* process_clocktick that shows the image at every tick of the pause
process_clocktick_shows_early(g, choice) ==
    LET pause_remaining == g.pause - g.current_pause
        g1 == IF pause_remaining = g.pause
              THEN [g EXCEPT !.current_round = @ + 1] ELSE g
        delay_remaining == g1.delay - g1.current_delay
    IN IF pause_remaining > 0
       THEN LET g2 == [g1 EXCEPT !.current_pause = @ + 1]
            IN IF choice # 0
               THEN [g2 EXCEPT !.current_image_id = choice]
               ELSE g2
       ELSE IF delay_remaining > 0
       THEN [g1 EXCEPT !.current_delay = @ + 1]
       ELSE tick_settle(g1)

\* process_clocktick on the game g, where choice is the image of random.choice
process_clocktick_result(g, choice) ==
    LET pause_remaining == g.pause - g.current_pause
        g1 == IF pause_remaining = g.pause
              THEN [g EXCEPT !.current_round = @ + 1] ELSE g
        delay_remaining == g1.delay - g1.current_delay
    IN IF pause_remaining > 0
       THEN LET g2 == [g1 EXCEPT !.current_pause = @ + 1]
            IN IF pause_remaining = 1 /\ choice # 0
               THEN [g2 EXCEPT !.current_image_id = choice]
               ELSE g2
       ELSE IF delay_remaining > 0
       THEN [g1 EXCEPT !.current_delay = @ + 1]
       ELSE tick_settle(g1)

\* gameplay_callback: one tick of the interval timer, when the game is automatic
process_clocktick ==
    /\ GameReady
    /\ gameplay.autogame /\ gameplay.game_on
    /\ gameplay.current_round < MaxRound
    /\ CanSettle
    /\ \E choice \in TickChoices(images) :
          gameplay' = process_clocktick_result(gameplay, choice)
    /\ url_file' = IF gameplay.current_image_id # 0
                      /\ gameplay.pause - gameplay.current_pause <= 0
                      /\ gameplay.delay - gameplay.current_delay <= 0
                   THEN [exists |-> TRUE, rows |-> checkpoint_rows(images)]
                   ELSE url_file
    /\ game_last' = [NoGameCall EXCEPT !.op = "tick"]
    /\ UNCHANGED game_pc
    /\ UNCHANGED <<images, next_image_id, deleted_url_file, img_phase, img_last,
                   catVars, concVars, cmdVars, chkVars, autoVars>>

AutoNicks == { "p" }

AutoGameInit ==
    /\ cat = <<>>
    /\ reverse_lookup = EmptyMap
    /\ next_index = 1
    /\ cat_file = << <<1, <<"a">>>>, <<2, <<"b">>>> >>
    /\ cat_phase = "new"
    /\ cat_last = NoCall
    /\ images = <<>>
    /\ next_image_id = 1
    /\ url_file \in { NoFile, [exists |-> TRUE, rows |-> << <<1, <<"u">>, 2, 1, 1, 1>> >>] }
    /\ deleted_url_file = NoFile
    /\ img_phase = "new"
    /\ img_last = NoImgCall

SpecAutoGameInit == AutoGameInit /\ ConcInit /\ AutoIdle /\ GameIdle /\ CmdIdle /\ ChkIdle

SpecAutoGameNext ==
    \/ read_categories
    \/ read_images
    \/ start_game
    \/ \E r \in 1..MaxRounds, d \in 0..MaxGameDelay, p \in 0..MaxPause : auto_start(r, d, p)
    \/ process_clocktick
    \/ \E n \in AutoNicks, l \in SeqsUpTo(GameWords, 1) : on_love_image(n, l)

SpecAutoGame == SpecAutoGameInit /\ [][SpecAutoGameNext]_vars

\* C21: every start of a game, by hand or automatic, leaves no scorecard, the
\* game on and no current image.
C21_StartClearsScorecards ==
    game_last.op \in { "start_game", "auto_start" } =>
        /\ gameplay.players = <<>>
        /\ gameplay.game_on
        /\ gameplay.current_image_id = 0

\* C24: an automatic game with rounds >= 1, pause >= 0 and delay >= 0, driven
\* by the ticks alone, comes to Game Over after exactly `rounds` rounds. The
\* game is over only at a tick that finds current_round = rounds and
\* current_round never goes down, so while the game runs the rounds counted
\* have not passed `rounds`.
C24_AutoGameEndsAfterRounds ==
    (gameplay.autogame /\ gameplay.game_on) => gameplay.current_round <= gameplay.rounds

----------------------------------------------------------------------------
(* One player's loves on one of two images (SpecRound, SpecRoundDel) *)

\* what the player loves: a keyword of the dictionary in capitals, a new one
RoundWords == { <<"A">>, <<"c">> }

RoundInit ==
    /\ cat = <<>>
    /\ reverse_lookup = EmptyMap
    /\ next_index = 1
    /\ cat_file = << <<1, <<"a">>>>, <<2, <<"b">>>> >>
    /\ cat_phase = "new"
    /\ cat_last = NoCall
    /\ images = <<>>
    /\ next_image_id = 1
    /\ url_file = [exists |-> TRUE, rows |-> << <<1, <<"u">>, 1, 1>>, <<2, <<"u", "v">>>> >>]
    /\ deleted_url_file = NoFile
    /\ img_phase = "new"
    /\ img_last = NoImgCall

SpecRoundInit == RoundInit /\ ConcInit /\ AutoIdle /\ GameIdle /\ CmdIdle /\ ChkIdle

SpecRoundNext ==
    \/ read_categories
    \/ read_images
    \/ start_game
    \/ stop_game
    \/ on_next_image(1)
    \/ \E n \in AutoNicks, l \in SeqsUpTo(RoundWords, MaxLoves) : on_love_image(n, l)

SpecRound == SpecRoundInit /\ [][SpecRoundNext]_vars

\* the same with the delete command on the current image
SpecRoundDelNext ==
    \/ SpecRoundNext
    \/ delete_image(1)

SpecRoundDel == SpecRoundInit /\ [][SpecRoundDelNext]_vars

\* the loves the player nick_ has on the image id_ in the players g
LovesOn(players, nick_, id_) ==
    IF Has(players, nick_) /\ Has(Get(players, nick_).image_loves, id_)
    THEN Get(Get(players, nick_).image_loves, id_)
    ELSE <<>>

CreatesOf(players, nick_) ==
    IF Has(players, nick_) THEN Get(players, nick_).create_cat_count ELSE 0

\* what a step of the love command has done: words are the loves it has put on
\* the player's scorecard, and the category of a word is looked up afterwards
LoveStepAsClaimed ==
    LET nick_ == game_last'.nick
        id == gameplay.current_image_id
        old == LovesOn(gameplay.players, nick_, id)
        new == LovesOn(gameplay'.players, nick_, id)
        words == SubSeq(new, Len(old) + 1, Len(new))
        WordCat(w) == get_index(reverse_lookup', lower(w))
        before == Get(images, id).categories
        after == Get(images', id).categories
        cats == { WordCat(words[i]) : i \in 1..Len(words) }
    IN IF id = 0
       THEN images' = images /\ gameplay'.players = gameplay.players
       ELSE Has(images, id) =>
              /\ KeySet(images') = KeySet(images)
              /\ \A other \in KeySet(images) \ {id} : Get(images', other) = Get(images, other)
              /\ 0 \notin cats
              /\ \A c \in KeySet(before) \cup KeySet(after) \cup cats :
                     GetOr0(after, c) = GetOr0(before, c)
                                        + Cardinality({ i \in 1..Len(words) : WordCat(words[i]) = c })
              /\ CreatesOf(gameplay'.players, nick_) =
                     CreatesOf(gameplay.players, nick_)
                     + Cardinality({ c \in cats : ~Has(before, c) })

\* C22: the love command of a player on the current live image adds, for each
\* word, one vote to the word's category on that image, and one create to the
\* player for each word whose category the image did not carry when the word
\* was processed; no other image changes. With no current image it changes no
\* vote and no scorecard.
C22_LoveVotesAndCreates ==
    [][ (game_last'.op = "love" /\ gameplay.game_on) => LoveStepAsClaimed ]_vars

\* the player has loved the new word twice on image 1: two votes, one create
C22_Witness ==
    /\ game_last.op = "love"
    /\ gameplay.current_image_id = 1
    /\ Has(images, 1)
    /\ GetOr0(Get(images, 1).categories, 3) = 2
    /\ GetOr0(Get(images, 1).categories, 1) >= 2
    /\ CreatesOf(gameplay.players, "p") = 1

\* C23: after the round on the current image is settled (next image, stop),
\* every player's score is 15 creates + 10 firsts + 5 seconds + 2 thirds of the
\* player's counters, the creates of the round included, also when the current
\* image has been deleted during the round.
C23_ScoreIsWeightedSum ==
    (GameReady /\ gameplay.game_on /\ gameplay.current_image_id # 0) =>
        \A i \in 1..Len(gameplay.players) :
            LET sc == settled(gameplay).players[i][2]
            IN sc.score = 15 * sc.create_cat_count + 10 * sc.first_match_count
                          + 5 * sc.second_match_count + 2 * sc.third_match_count

----------------------------------------------------------------------------
(* The next-image command and the tick callback, step by step (SpecGameConc) *)

\* on_next_image up to "if not channel_.gameplay.get_game_state()"
next_check(image_id_) ==
    /\ GameReady
    /\ game_pc.next = "idle"
    /\ game_pc' = IF gameplay.game_on
                  THEN [game_pc EXCEPT !.next = "settle", !.image_id = image_id_]
                  ELSE game_pc
    /\ game_last' = [NoGameCall EXCEPT !.op = "next_check"]
    /\ UNCHANGED <<gameplay, catVars, concVars, cmdVars, chkVars, imgVars, autoVars>>

\* on_next_image: next_image(key), then the test of image_id against the keys;
\* with no id the name "ramdom" ends the handler when there are images, and with
\* no image at all image_id stays -1
next_settle ==
    /\ game_pc.next = "settle"
    /\ CanSettle
    /\ gameplay' = settled(gameplay)
    /\ url_file' = IF gameplay.current_image_id # 0
                   THEN [exists |-> TRUE, rows |-> checkpoint_rows(images)]
                   ELSE url_file
    /\ game_pc' = IF (game_pc.image_id > 0 /\ Has(images, game_pc.image_id))
                     \/ (game_pc.image_id <= 0 /\ images = <<>>)
                  THEN [game_pc EXCEPT !.next = "set"]
                  ELSE [game_pc EXCEPT !.next = "idle", !.image_id = 0]
    /\ game_last' = [NoGameCall EXCEPT !.op = "next_settle"]
    /\ UNCHANGED <<images, next_image_id, deleted_url_file, img_phase, img_last,
                   catVars, concVars, cmdVars, chkVars, autoVars>>

\* on_next_image: set_game_image(image_id)
next_set ==
    /\ game_pc.next = "set"
    /\ gameplay' = [gameplay EXCEPT !.current_image_id = game_pc.image_id]
    /\ game_pc' = [game_pc EXCEPT !.next = "idle", !.image_id = 0]
    /\ game_last' = [NoGameCall EXCEPT !.op = "next_image"]
    /\ UNCHANGED <<catVars, concVars, cmdVars, chkVars, imgVars, autoVars>>

\* gameplay_callback: "if channel.gameplay.get_game_mode()"
tick_check ==
    /\ GameReady
    /\ game_pc.tick = "idle"
    /\ gameplay.autogame /\ gameplay.game_on
    /\ gameplay.current_round < MaxRound
    /\ game_pc' = [game_pc EXCEPT !.tick = "body"]
    /\ game_last' = [NoGameCall EXCEPT !.op = "tick_check"]
    /\ UNCHANGED <<gameplay, catVars, concVars, cmdVars, chkVars, imgVars, autoVars>>

\* gameplay_callback: process_clocktick, under the mutex only the ticks take
tick_body ==
    /\ game_pc.tick = "body"
    /\ CanSettle
    /\ \E choice \in TickChoices(images) :
          gameplay' = process_clocktick_result(gameplay, choice)
    /\ url_file' = IF gameplay.current_image_id # 0
                      /\ gameplay.pause - gameplay.current_pause <= 0
                      /\ gameplay.delay - gameplay.current_delay <= 0
                   THEN [exists |-> TRUE, rows |-> checkpoint_rows(images)]
                   ELSE url_file
    /\ game_pc' = [game_pc EXCEPT !.tick = "idle"]
    /\ game_last' = [NoGameCall EXCEPT !.op = "tick"]
    /\ UNCHANGED <<images, next_image_id, deleted_url_file, img_phase, img_last,
                   catVars, concVars, cmdVars, chkVars, autoVars>>

SpecGameConcInit == AutoGameInit /\ ConcInit /\ AutoIdle /\ GameIdle /\ CmdIdle /\ ChkIdle

SpecGameConcNext ==
    \/ read_categories
    \/ read_images
    \/ start_game
    \/ stop_game
    \/ \E r \in 1..MaxRounds, d \in 0..MaxGameDelay, p \in 0..MaxPause : auto_start(r, d, p)
    \/ \E i \in {-1} \cup (1..MaxImageId) : next_check(i)
    \/ next_settle
    \/ next_set
    \/ tick_check
    \/ tick_body

SpecGameConc == SpecGameConcInit /\ [][SpecGameConcNext]_vars

\* C25: in every reachable state of the game, with the next-image command or a
\* tick interleaved with stop, a game that is not running has no current image.
C25_StoppedHasNoImage ==
    ~gameplay.game_on => gameplay.current_image_id = 0

----------------------------------------------------------------------------
(* The autoplay cursor *)

\* C26: while autoplay is enabled in sequential mode, directly after
\* set_autoplay and after every fetch_next_id, counting up or down, looping or
\* not, the cursor is an index of the list of ids: 0 <= cur_id_ < len(image_keys).
C26_CursorInRange ==
    (autoplay.autoplay /\ autoplay.sequential_) =>
        /\ 0 <= autoplay.cur_id_
        /\ autoplay.cur_id_ < Len(autoplay.image_keys)

\* the number of calls of fetch_next_id in a row that are looked at
MaxFetch == 7

\* the index (from 1) of the id that call k from the fields a returns when the
\* list is gone through cyclically
CyclicIndex(a, k) ==
    LET n == Len(a.image_keys)
    IN IF a.count_up_
       THEN ((a.cur_id_ + k - 1) % n) + 1
       ELSE ((a.cur_id_ + n * MaxFetch - k) % n) + 1

\* C27: with autoplay enabled in sequential mode with loop over a non-empty list
\* of n ids, fetch_next_id never returns -1 and never disables autoplay, and
\* calls in a row return the list cyclically: index 0..n-1 repeated counting up,
\* index n-1..0 repeated counting down.
C27_LoopIsCyclic ==
    (autoplay.autoplay /\ autoplay.sequential_ /\ autoplay.loop_ = TRUE
        /\ autoplay.image_keys # <<>>) =>
        \A k \in 1..MaxFetch :
            LET r == nth_fetch(autoplay, k)
            IN /\ ~r.raised
               /\ r.ret # -1
               /\ r.a.autoplay
               /\ r.ret = autoplay.image_keys[CyclicIndex(autoplay, k)]
               /\ (auto_last.op = "set_autoplay" =>
                      r.ret = autoplay.image_keys[
                                 IF autoplay.count_up_
                                 THEN ((k - 1) % Len(autoplay.image_keys)) + 1
                                 ELSE Len(autoplay.image_keys)
                                         - ((k - 1) % Len(autoplay.image_keys))])

\* counting down over three ids with loop, fetch_next_id has returned the first
\* id of the list and the next call wraps to the last
C27_Witness ==
    /\ auto_last.op = "fetch_next_id"
    /\ autoplay.autoplay /\ autoplay.sequential_ /\ autoplay.loop_ = TRUE
    /\ ~autoplay.count_up_
    /\ Len(autoplay.image_keys) = 3
    /\ autoplay.cur_id_ = 0
    /\ auto_last.ret = autoplay.image_keys[1]
    /\ fetch_next_id_result(autoplay, 0).ret = autoplay.image_keys[3]

----------------------------------------------------------------------------
(* The url checker (SpecSweep, SpecSweepFair, SpecSweepConc) *)

\* sort(reverse=True) of a list of ids
RECURSIVE reversed(_)
reversed(q) == IF q = <<>> THEN <<>> ELSE Append(reversed(Tail(q)), q[1])

\* enable() that takes the ids in the order of the dict
enable_unsorted(u, d) ==
    IF u.enabled THEN u
    ELSE LET fresh == u.last_image_idx = 0
             list == IF fresh THEN Keys(d) ELSE u.image_list
             inc == IF fresh
                    THEN (IF (Len(list) + 3) \div 4 < 1 THEN 1 ELSE (Len(list) + 3) \div 4)
                    ELSE u.update_inc
             steps == IF u.last_image_idx > inc
                      THEN (u.last_image_idx + inc - 1) \div inc ELSE 1
         IN [u EXCEPT !.image_list = list, !.update_inc = inc,
                      !.image_idx = u.last_image_idx, !.update_count = steps * inc,
                      !.enabled = TRUE]

\* UrlChecker.enable on the fields u with the image dictionary d; the while loop
\* leaves update_count at the first multiple of update_inc not below image_idx
enable_result(u, d) ==
    IF u.enabled THEN u
    ELSE LET fresh == u.last_image_idx = 0
             list == IF fresh THEN reversed(sorted(Keys(d))) ELSE u.image_list
             inc == IF fresh
                    THEN (IF (Len(list) + 3) \div 4 < 1 THEN 1 ELSE (Len(list) + 3) \div 4)
                    ELSE u.update_inc
             steps == IF u.last_image_idx > inc
                      THEN (u.last_image_idx + inc - 1) \div inc ELSE 1
         IN [u EXCEPT !.image_list = list, !.update_inc = inc,
                      !.image_idx = u.last_image_idx, !.update_count = steps * inc,
                      !.enabled = TRUE]

is_enabled(u) == u.enabled /\ ~u.paused

\* checkImage: 'https://gyazo.com/' in url, and the url it is replaced with
is_gyazo(url) == url # <<>> /\ url[1] = "g"
gyazo_fixed(url) == <<"i">> \o url

\* what the probe of an image can come to: the url answers, the url answers and
\* a gyazo link is replaced by one that answers too, the url does not answer
ProbeChoices(img) ==
    {"valid", "invalid"} \cup (IF is_gyazo(img.url) THEN {"fixed"} ELSE {})

\* the image dictionary and its files as one value
Store == [images |-> images, next |-> next_image_id, url_file |-> url_file,
          deleted |-> deleted_url_file]

\* checkImage that is never followed by delete_image
check_never_deletes(s, id_, choice) ==
    IF choice = "fixed"
    THEN [s EXCEPT !.images = Put(s.images, id_,
                       [Get(s.images, id_) EXCEPT !.url = gyazo_fixed(Get(s.images, id_).url)])]
    ELSE s

\* process_callback on a live image: checkImage, and delete_image when it fails
check_result(s, id_, choice) ==
    IF choice = "invalid"
    THEN LET r == delete_image_result(s.images, s.url_file, s.deleted, id_)
         IN [s EXCEPT !.images = r.images, !.url_file = r.url_file, !.deleted = r.deleted]
    ELSE IF choice = "fixed"
    THEN [s EXCEPT !.images = Put(s.images, id_,
                       [Get(s.images, id_) EXCEPT !.url = gyazo_fixed(Get(s.images, id_).url)])]
    ELSE s

\* the line 'Url check: image ...' and whether 'Url check removing image' follows
LogEntry(img, id_, choice) ==
    [id |-> id_, url |-> img.url, cats |-> img.categories, valid |-> choice # "invalid"]

\* process_callback, "if self.image_idx < len(self.image_list)" up to the check
\* of the image: [s, log]
sweep_check(u, s, log, choice) ==
    LET id_ == u.image_list[u.image_idx + 1]
    IN IF Has(s.images, id_)
       THEN [s |-> check_result(s, id_, choice),
             log |-> Append(log, LogEntry(Get(s.images, id_), id_, choice))]
       ELSE [s |-> s, log |-> log]

\* process_callback, "move to next image": [u, raised]; the percentage divides
\* by len(self.image_list)
sweep_advance(u) ==
    LET idx == u.image_idx + 1
        u2 == [u EXCEPT !.image_idx = idx, !.last_image_idx = idx]
    IN IF idx > u.update_count
       THEN [u |-> [u2 EXCEPT !.update_count = u.update_count + u.update_inc],
             raised |-> u.image_list = <<>>]
       ELSE [u |-> u2, raised |-> FALSE]

\* process_callback, the else branch: [u, s]
sweep_finish(u, s) ==
    LET r == renumber_result(s.images)
    IN [u |-> [u EXCEPT !.image_list = <<>>, !.image_idx = 0, !.last_image_idx = 0,
                        !.enabled = FALSE],
        s |-> [s EXCEPT !.images = r.images, !.next = r.next,
                        !.url_file = [exists |-> TRUE, rows |-> r.rows]]]

\* the choices of the probe in the state the callback finds
SweepChoices(u, d) ==
    IF u.image_idx < Len(u.image_list) /\ Has(d, u.image_list[u.image_idx + 1])
    THEN ProbeChoices(Get(d, u.image_list[u.image_idx + 1]))
    ELSE {"valid"}

\* on_check_urls: the toggle; disabling checkpoints the channel
on_check_urls ==
    /\ UNCHANGED img_lock
    /\ GameReady
    /\ IF is_enabled(url_checker)
       THEN /\ url_checker' = [url_checker EXCEPT !.enabled = FALSE]
            /\ cat_file' = category_checkpoint(cat)
            /\ url_file' = [exists |-> TRUE, rows |-> checkpoint_rows(images)]
            /\ chk_last' = [NoChkCall EXCEPT !.op = "disable"]
            /\ UNCHANGED chk_log
       ELSE /\ url_checker' = enable_result(url_checker, images)
            /\ chk_log' = IF url_checker.last_image_idx = 0 THEN <<>> ELSE chk_log
            /\ chk_last' = [NoChkCall EXCEPT !.op = "enable"]
            /\ UNCHANGED <<cat_file, url_file>>
    /\ UNCHANGED <<cat, reverse_lookup, next_index, cat_phase, cat_last,
                   images, next_image_id, deleted_url_file, img_phase, img_last,
                   chk_pc, concVars, autoVars, gameVars, cmdVars>>

\* check_url_callback with no other call of it running: process_callback from
\* "if self.busy" to "self.busy = False"
process_callback ==
    /\ UNCHANGED img_lock
    /\ GameReady
    /\ is_enabled(url_checker)
    /\ \A t \in Threads : chk_pc[t] = "idle"
    /\ IF url_checker.busy
       THEN /\ chk_last' = [NoChkCall EXCEPT !.op = "busy"]
            /\ UNCHANGED <<url_checker, chk_log, images, next_image_id, url_file,
                           deleted_url_file>>
       ELSE IF url_checker.image_idx < Len(url_checker.image_list)
       THEN \E choice \in SweepChoices(url_checker, images) :
               LET c == sweep_check(url_checker, Store, chk_log, choice)
                   a == sweep_advance(url_checker)
               IN /\ images' = c.s.images
                  /\ url_file' = c.s.url_file
                  /\ deleted_url_file' = c.s.deleted
                  /\ chk_log' = c.log
                  /\ url_checker' = a.u
                  /\ chk_last' = [NoChkCall EXCEPT !.op = "check", !.raised = a.raised]
                  /\ UNCHANGED next_image_id
       ELSE LET f == sweep_finish(url_checker, Store)
            IN /\ images' = f.s.images
               /\ next_image_id' = f.s.next
               /\ url_file' = f.s.url_file
               /\ url_checker' = f.u
               /\ chk_last' = [NoChkCall EXCEPT !.op = "renumber"]
               /\ UNCHANGED <<chk_log, deleted_url_file>>
    /\ UNCHANGED <<img_phase, img_last, chk_pc, catVars, concVars, autoVars, gameVars, cmdVars>>

\* the images file the sweeps start from
SweepFiles ==
    { [exists |-> TRUE, rows |-> << <<1, <<"u">>, 1, 1>>, <<2, <<"g">>>>, <<3, <<"v">>, 2, 2>> >>],
      [exists |-> TRUE, rows |-> << <<2, <<"g">>, 1, 1>>, <<1, <<"u">>>> >>] }

SweepInit ==
    /\ cat = <<>>
    /\ reverse_lookup = EmptyMap
    /\ next_index = 1
    /\ cat_file = << <<1, <<"a">>>>, <<2, <<"b">>>> >>
    /\ cat_phase = "new"
    /\ cat_last = NoCall
    /\ images = <<>>
    /\ next_image_id = 1
    /\ url_file \in SweepFiles
    /\ deleted_url_file = NoFile
    /\ img_phase = "new"
    /\ img_last = NoImgCall

SpecSweepInit == SweepInit /\ ConcInit /\ RestIdle

SpecSweepNext ==
    \/ read_categories
    \/ read_images
    \/ on_check_urls
    \/ process_callback

SpecSweep == SpecSweepInit /\ [][SpecSweepNext]_vars

\* the callback comes every two seconds
SpecSweepFair == SpecSweepInit /\ [][SpecSweepNext]_vars /\ WF_vars(process_callback)

\* a step of the callback that got past the busy flag
TickStep == chk_last'.op \in {"check", "renumber"} /\ url_checker' # url_checker

Descending(q) == \A i, j \in 1..Len(q) : i < j => q[i] > q[j]

\* the callback checks the id under the cursor and moves the cursor by one
ChecksOneId ==
    /\ chk_last'.op = "check"
    /\ ~chk_last'.raised
    /\ Descending(url_checker.image_list)
    /\ Len(chk_log') = Len(chk_log) + 1
    /\ SubSeq(chk_log', 1, Len(chk_log)) = chk_log
    /\ chk_log'[Len(chk_log')].id = url_checker.image_list[url_checker.image_idx + 1]
    /\ url_checker'.image_idx = url_checker.image_idx + 1
    /\ url_checker'.image_list = url_checker.image_list
    /\ url_checker'.enabled /\ ~url_checker'.busy

\* the callback renumbers, forgets the list and turns the checker off
FinishesSweep ==
    /\ chk_last'.op = "renumber"
    /\ images' = renumber_result(images).images
    /\ url_checker'.image_list = <<>>
    /\ url_checker'.image_idx = 0
    /\ ~url_checker'.enabled /\ ~url_checker'.busy
    /\ chk_log' = chk_log

\* C29: an enabled, unpaused checker over a list of n ids checks one id of the
\* list per callback, in descending order of id; the callback after the n-th id
\* runs renumber_images, clears the list, sets the cursor to 0 and disables the
\* checker; with callbacks that keep coming every enabled checker ends disabled.
C29_SweepOneIdPerTick ==
    /\ [][ (is_enabled(url_checker) /\ TickStep) =>
              IF url_checker.image_idx < Len(url_checker.image_list)
              THEN ChecksOneId ELSE FinishesSweep ]_vars
    /\ (is_enabled(url_checker) ~> ~url_checker.enabled)

\* three images were checked, from id 3 down to id 1, one of them failed, and the
\* callback after them has renumbered and disabled the checker
C29_Witness ==
    /\ chk_last.op = "renumber"
    /\ Len(chk_log) = 3
    /\ chk_log[1].id = 3 /\ chk_log[2].id = 2 /\ chk_log[3].id = 1
    /\ \E i \in 1..3 : ~chk_log[i].valid
    /\ ~url_checker.enabled
    /\ url_checker.image_list = <<>>
    /\ url_checker.image_idx = 0
    /\ Keys(images) = <<1, 2>>

\* the row of the deleted images file for a checked image
QuarantineRow(e) == <<e.id, e.url>> \o flat_pairs(e.cats)

\* the deleted images file gets a row exactly when a check fails: the row of
\* the image checked, which leaves the dictionary
QuarantinedIffInvalid ==
    LET checked == Len(chk_log') = Len(chk_log) + 1
        e == chk_log'[Len(chk_log')]
    IN /\ (deleted_url_file' # deleted_url_file) <=> (checked /\ ~e.valid)
       /\ (checked /\ ~e.valid) =>
             /\ deleted_url_file'.rows = Append(deleted_url_file.rows, QuarantineRow(e))
             /\ Has(images, e.id) /\ ~Has(images', e.id)
       /\ (checked /\ e.valid) => Keys(images') = Keys(images)

\* after the last callback of a sweep: the images that passed are in the
\* dictionary with their votes, the ones that failed are not and have their row
SweepOutcome ==
    /\ \A i \in 1..Len(chk_log) :
          LET e == chk_log[i]
          IN IF e.valid
             THEN \E k \in 1..Len(images) :
                     /\ images[k][2].url \in {e.url, gyazo_fixed(e.url)}
                     /\ images[k][2].categories = e.cats
             ELSE /\ \A k \in 1..Len(images) : images[k][2].url # e.url
                  /\ \E r \in 1..Len(deleted_url_file.rows) :
                        deleted_url_file.rows[r] = QuarantineRow(e)
    /\ Len(images) = Cardinality({ i \in 1..Len(chk_log) : chk_log[i].valid })

\* C30: while the checker goes through its list and nothing else changes the
\* images, an image is moved to the deleted images file if and only if its check
\* failed; when the sweep is complete every image that passed is still there
\* with its votes unchanged, and every image that failed is gone from the
\* dictionary and has a row with its url and votes in the deleted images file.
C30_QuarantineIffInvalid ==
    /\ [][ QuarantinedIffInvalid ]_vars
    /\ [](chk_last.op = "renumber" => SweepOutcome)

\* a sweep over three images is complete: image 3 (with votes) failed, image 2
\* passed with its url replaced, image 1 passed
C30_Witness ==
    /\ chk_last.op = "renumber"
    /\ Len(chk_log) = 3
    /\ ~chk_log[1].valid /\ chk_log[1].cats # <<>>
    /\ chk_log[2].valid /\ chk_log[3].valid
    /\ Len(images) = 2
    /\ \E k \in 1..2 : images[k][2].url = gyazo_fixed(chk_log[2].url)
    /\ deleted_url_file.rows = << QuarantineRow(chk_log[1]) >>

----------------------------------------------------------------------------
(* Two callbacks of the url checker at overlapping times (SpecSweepConc) *)

\* check_url_callback: "if channel_data[channel_].url_checker.is_enabled()"
chk_call(t) ==
    /\ UNCHANGED img_lock
    /\ GameReady
    /\ chk_pc[t] = "idle"
    /\ is_enabled(url_checker)
    /\ chk_pc' = [chk_pc EXCEPT ![t] = "test"]
    /\ UNCHANGED <<url_checker, chk_log, chk_last, catVars, concVars, imgVars,
                   autoVars, gameVars, cmdVars>>

\* process_callback: "if self.busy: return"
chk_test(t) ==
    /\ UNCHANGED img_lock
    /\ chk_pc[t] = "test"
    /\ chk_pc' = [chk_pc EXCEPT ![t] = IF url_checker.busy THEN "idle" ELSE "set"]
    /\ chk_last' = IF url_checker.busy THEN [NoChkCall EXCEPT !.op = "busy"] ELSE chk_last
    /\ UNCHANGED <<url_checker, chk_log, catVars, concVars, imgVars,
                   autoVars, gameVars, cmdVars>>

\* process_callback: "self.busy = True"
chk_set(t) ==
    /\ UNCHANGED img_lock
    /\ chk_pc[t] = "set"
    /\ url_checker' = [url_checker EXCEPT !.busy = TRUE]
    /\ chk_pc' = [chk_pc EXCEPT ![t] = "body"]
    /\ UNCHANGED <<chk_log, chk_last, catVars, concVars, imgVars,
                   autoVars, gameVars, cmdVars>>

\* process_callback: the check of the image under the cursor, or the else branch
chk_body(t) ==
    /\ UNCHANGED img_lock
    /\ chk_pc[t] = "body"
    /\ IF url_checker.image_idx < Len(url_checker.image_list)
       THEN \E choice \in SweepChoices(url_checker, images) :
               LET c == sweep_check(url_checker, Store, chk_log, choice)
               IN /\ images' = c.s.images
                  /\ url_file' = c.s.url_file
                  /\ deleted_url_file' = c.s.deleted
                  /\ chk_log' = c.log
                  /\ chk_pc' = [chk_pc EXCEPT ![t] = "advance"]
                  /\ UNCHANGED <<url_checker, chk_last, next_image_id>>
       ELSE LET f == sweep_finish(url_checker, Store)
            IN /\ images' = f.s.images
               /\ next_image_id' = f.s.next
               /\ url_file' = f.s.url_file
               /\ url_checker' = [f.u EXCEPT !.busy = FALSE]
               /\ chk_last' = [NoChkCall EXCEPT !.op = "renumber"]
               /\ chk_pc' = [chk_pc EXCEPT ![t] = "idle"]
               /\ UNCHANGED <<chk_log, deleted_url_file>>
    /\ UNCHANGED <<img_phase, img_last, catVars, concVars, autoVars, gameVars, cmdVars>>

\* process_callback: "move to next image" and "self.busy = False", which an
\* exception of the percentage does not reach
chk_advance(t) ==
    /\ UNCHANGED img_lock
    /\ chk_pc[t] = "advance"
    /\ LET a == sweep_advance(url_checker)
       IN /\ url_checker' = [a.u EXCEPT !.busy = IF a.raised THEN a.u.busy ELSE FALSE]
          /\ chk_last' = [NoChkCall EXCEPT !.op = "check", !.raised = a.raised]
    /\ chk_pc' = [chk_pc EXCEPT ![t] = "idle"]
    /\ UNCHANGED <<chk_log, catVars, concVars, imgVars, autoVars, gameVars, cmdVars>>

SpecSweepConcNext ==
    \/ read_categories
    \/ read_images
    \/ on_check_urls
    \/ \E t \in Threads : chk_call(t)
    \/ \E t \in Threads : chk_test(t)
    \/ \E t \in Threads : chk_set(t)
    \/ \E t \in Threads : chk_body(t)
    \/ \E t \in Threads : chk_advance(t)

SpecSweepConc == SpecSweepInit /\ [][SpecSweepConcNext]_vars

\* the callbacks that are past the busy flag
InSweepBody == { t \in Threads : chk_pc[t] \in {"body", "advance"} }

\* C28: when the callback of one channel's url checker runs in two threads at
\* overlapping times, at most one of them is past the busy flag at a time, and no
\* id of the list is checked twice.
C28_OneSweepBodyAtATime ==
    /\ Cardinality(InSweepBody) <= 1
    /\ \A i, j \in 1..Len(chk_log) : i < j => chk_log[i].id # chk_log[j].id

----------------------------------------------------------------------------
(* The check of one url, with commands in between (SpecProbe) *)

\* checkImage: orig_ok is what checkUrl(url) answers, alt_ok whether one of the
\* replaced forms of a gyazo link answers; the replaced forms are tried only
\* inside "if self.checkUrl(url)"
checkImage(url, orig_ok, alt_ok) ==
    IF orig_ok
    THEN IF is_gyazo(url) /\ alt_ok THEN "fixed" ELSE "valid"
    ELSE "invalid"

\* process_callback that calls checkImage inside "with self.lock"
lock_taken_for_probe(l) == "sweeper"

\* the lock of the image dictionary when checkImage is called: process_callback
\* has not touched it
lock_during_probe(l) == l

\* the id under the cursor
CursorId == url_checker.image_list[url_checker.image_idx + 1]

\* process_callback up to the request of checkUrl, for an image that is there
probe_begin ==
    /\ GameReady
    /\ is_enabled(url_checker)
    /\ \A t \in Threads : chk_pc[t] = "idle"
    /\ ~url_checker.busy
    /\ url_checker.image_idx < Len(url_checker.image_list)
    /\ Has(images, CursorId)
    /\ url_checker' = [url_checker EXCEPT !.busy = TRUE]
    /\ chk_pc' = [chk_pc EXCEPT ![1] = "probe"]
    /\ chk_log' = Append(chk_log, LogEntry(Get(images, CursorId), CursorId, "valid"))
    /\ chk_last' = [NoChkCall EXCEPT !.op = "probe", !.id = CursorId,
                                     !.url = Get(images, CursorId).url]
    /\ img_lock' = lock_during_probe(img_lock)
    /\ UNCHANGED <<catVars, concVars, imgVars, autoVars, gameVars, cmdVars>>

\* process_callback when there is nothing to ask: the image is gone, the list is
\* through (renumber_images takes the lock), or another callback is busy
callback_without_probe ==
    /\ GameReady
    /\ is_enabled(url_checker)
    /\ \A t \in Threads : chk_pc[t] = "idle"
    /\ img_lock = "free"
    /\ IF url_checker.busy
       THEN /\ chk_last' = [NoChkCall EXCEPT !.op = "busy"]
            /\ UNCHANGED <<url_checker, images, next_image_id, url_file>>
       ELSE IF url_checker.image_idx < Len(url_checker.image_list)
       THEN /\ ~Has(images, CursorId)
            /\ url_checker' = sweep_advance(url_checker).u
            /\ chk_last' = [NoChkCall EXCEPT !.op = "check", !.id = CursorId]
            /\ UNCHANGED <<images, next_image_id, url_file>>
       ELSE LET f == sweep_finish(url_checker, Store)
            IN /\ images' = f.s.images
               /\ next_image_id' = f.s.next
               /\ url_file' = f.s.url_file
               /\ url_checker' = f.u
               /\ chk_last' = [NoChkCall EXCEPT !.op = "renumber"]
    /\ UNCHANGED <<deleted_url_file, img_phase, img_last, chk_pc, chk_log, img_lock,
                   catVars, concVars, autoVars, gameVars, cmdVars>>

\* the answers are in: checkImage returns; a failed check goes on to
\* delete_image, the others to "move to next image"
probe_end(orig_ok, alt_ok) ==
    /\ chk_pc[1] = "probe"
    /\ LET choice == checkImage(chk_last.url, orig_ok, alt_ok)
           last == [chk_last EXCEPT !.orig_ok = orig_ok, !.alt_ok = alt_ok]
       IN IF choice = "invalid"
          THEN /\ chk_pc' = [chk_pc EXCEPT ![1] = "lock"]
               /\ chk_log' = IF chk_log = <<>> THEN chk_log
                             ELSE [chk_log EXCEPT ![Len(chk_log)].valid = FALSE]
               /\ chk_last' = [last EXCEPT !.op = "probed"]
               /\ UNCHANGED <<url_checker, images>>
          ELSE /\ chk_pc' = [chk_pc EXCEPT ![1] = "idle"]
               /\ images' = IF choice = "fixed" /\ Has(images, chk_last.id)
                            THEN check_result(Store, chk_last.id, choice).images
                            ELSE images
               /\ url_checker' = [sweep_advance(url_checker).u EXCEPT !.busy = FALSE]
               /\ chk_last' = [last EXCEPT !.op = "check"]
               /\ UNCHANGED chk_log
    /\ UNCHANGED <<next_image_id, url_file, deleted_url_file, img_phase, img_last, img_lock,
                   catVars, concVars, autoVars, gameVars, cmdVars>>

\* delete_image: "with self.lock"
chk_lock ==
    /\ chk_pc[1] = "lock"
    /\ img_lock = "free"
    /\ Len(deleted_url_file.rows) < MaxDeleted
    /\ img_lock' = "sweeper"
    /\ chk_pc' = [chk_pc EXCEPT ![1] = "locked"]
    /\ UNCHANGED <<url_checker, chk_log, chk_last, catVars, concVars, imgVars,
                   autoVars, gameVars, cmdVars>>

\* delete_image under the lock and the checkpoint after it, then "move to next
\* image" and "self.busy = False"
chk_delete ==
    /\ chk_pc[1] = "locked"
    /\ LET r == delete_image_result(images, url_file, deleted_url_file, chk_last.id)
       IN /\ images' = r.images
          /\ url_file' = r.url_file
          /\ deleted_url_file' = r.deleted
    /\ img_lock' = "free"
    /\ url_checker' = [sweep_advance(url_checker).u EXCEPT !.busy = FALSE]
    /\ chk_pc' = [chk_pc EXCEPT ![1] = "idle"]
    /\ chk_last' = [chk_last EXCEPT !.op = "check"]
    /\ UNCHANGED <<next_image_id, img_phase, img_last, chk_log,
                   catVars, concVars, autoVars, gameVars, cmdVars>>

\* the add and delete commands: add_image and delete_image wait for the lock
locked_add_image(url_) == img_lock = "free" /\ add_image(url_)
locked_delete_image(id_) == img_lock = "free" /\ delete_image(id_)

ProbeInit ==
    /\ cat = <<>>
    /\ reverse_lookup = EmptyMap
    /\ next_index = 1
    /\ cat_file = << <<1, <<"a">>>> >>
    /\ cat_phase = "new"
    /\ cat_last = NoCall
    /\ images = <<>>
    /\ next_image_id = 1
    /\ url_file = [exists |-> TRUE, rows |-> << <<1, <<"g">>, 1, 1>> >>]
    /\ deleted_url_file = NoFile
    /\ img_phase = "new"
    /\ img_last = NoImgCall

SpecProbeInit == ProbeInit /\ ConcInit /\ RestIdle

SpecProbeNext ==
    \/ read_categories
    \/ read_images
    \/ on_check_urls
    \/ probe_begin
    \/ callback_without_probe
    \/ \E orig_ok \in BOOLEAN, alt_ok \in BOOLEAN : probe_end(orig_ok, alt_ok)
    \/ chk_lock
    \/ chk_delete
    \/ locked_add_image(<<"u">>)
    \/ \E i \in 1..MaxImageId : locked_delete_image(i)

SpecProbe == SpecProbeInit /\ [][SpecProbeNext]_vars

\* C31: the check of a url is never under way while the url checker holds the
\* lock of the image dictionary: whenever a check is pending the lock is free, so
\* that an add or delete command can complete meanwhile, and the checker holds
\* the lock only for the delete_image that follows a failed check.
C31_ProbeOutsideLock ==
    /\ chk_pc[1] = "probe" => img_lock = "free"
    /\ img_lock = "sweeper" => chk_pc[1] = "locked"

\* a check is pending and a delete command has meanwhile removed the image
\* that is being checked
C31_Witness ==
    /\ chk_pc[1] = "probe"
    /\ img_lock = "free"
    /\ img_last.op = "delete" /\ img_last.id = chk_last.id /\ img_last.ret = 1
    /\ ~Has(images, chk_last.id)

\* the checker holds the lock for the delete after a failed check
C31_WitnessLocked ==
    /\ img_lock = "sweeper"
    /\ chk_pc[1] = "locked"
    /\ ~chk_last.orig_ok

\* C32: a gyazo image is declared invalid only after the replaced form of its
\* url was asked too and failed: when the url does not answer and the replaced
\* form would, the image stays with its url replaced.
C32_InvalidOnlyAfterRewriteFails ==
    [][ (chk_pc[1] = "probe" /\ chk_pc'[1] # "probe"
           /\ is_gyazo(chk_last.url) /\ Has(images, chk_last.id)
           /\ ~chk_last'.orig_ok /\ chk_last'.alt_ok) =>
           /\ chk_pc'[1] = "idle"
           /\ Has(images', chk_last.id)
           /\ Get(images', chk_last.id).url = gyazo_fixed(chk_last.url) ]_vars

----------------------------------------------------------------------------
(* Two love commands at overlapping times (SpecLoveConc) *)

\* the player of each command, and the word both send
LoveNick(t) == IF t = 1 THEN "p" ELSE "q"
LoveWord == <<"c">>

\* add_loves up to "cat_id = channel.category_dictionary.add_category(love.lower())"
love_begin(t) ==
    /\ GameReady
    /\ gameplay.game_on
    /\ game_pc.love[t].pc = "idle"
    /\ gameplay.current_image_id # 0
    /\ Has(images, gameplay.current_image_id)
    /\ LET nick_ == LoveNick(t)
           sc == IF Has(gameplay.players, nick_) THEN Get(gameplay.players, nick_) ELSE Scorecard
           r == add_category_result(cat, reverse_lookup, cat_file, lower(LoveWord))
       IN /\ gameplay' = [gameplay EXCEPT !.players =
                 Put(@, nick_, update_loves(sc, gameplay.current_image_id, <<LoveWord>>))]
          /\ cat' = r.cat
          /\ reverse_lookup' = r.rev
          /\ cat_file' = r.file
          /\ game_pc' = [game_pc EXCEPT !.love[t] =
                 [pc |-> "has", image_id |-> gameplay.current_image_id, cat_id |-> r.ret,
                  hit |-> FALSE]]
    /\ game_last' = [NoGameCall EXCEPT !.op = "love_begin", !.nick = LoveNick(t)]
    /\ UNCHANGED <<next_index, cat_phase, cat_last, imgVars, concVars, cmdVars, chkVars, autoVars>>

\* add_loves: "if not image.has_category(cat_id): ... icrement_creates()"
love_has(t) ==
    /\ game_pc.love[t].pc = "has"
    /\ LET me == game_pc.love[t]
           nick_ == LoveNick(t)
       IN gameplay' = IF Has(Get(images, me.image_id).categories, me.cat_id)
                      THEN gameplay
                      ELSE [gameplay EXCEPT !.players = Put(@, nick_,
                               [Get(@, nick_) EXCEPT !.create_cat_count = @ + 1])]
    /\ game_pc' = [game_pc EXCEPT !.love[t].pc = "add"]
    /\ game_last' = [NoGameCall EXCEPT !.op = "love_has", !.nick = LoveNick(t)]
    /\ UNCHANGED <<catVars, imgVars, concVars, cmdVars, chkVars, autoVars>>

\* Image.add_category: "if self.has_category(key_)"
love_add_test(t) ==
    /\ game_pc.love[t].pc = "add"
    /\ game_pc' = [game_pc EXCEPT
          !.love[t].pc = "set",
          !.love[t].hit = Has(Get(images, game_pc.love[t].image_id).categories,
                              game_pc.love[t].cat_id)]
    /\ game_last' = [NoGameCall EXCEPT !.op = "love_add", !.nick = LoveNick(t)]
    /\ UNCHANGED <<gameplay, catVars, imgVars, concVars, cmdVars, chkVars, autoVars>>

\* Image.add_category: "self.categories[key_] += count_" or "= count_"
love_add_set(t) ==
    /\ game_pc.love[t].pc = "set"
    /\ LET me == game_pc.love[t]
           image == Get(images, me.image_id)
       IN images' = Put(images, me.image_id,
             [image EXCEPT !.categories =
                 IF me.hit THEN Put(@, me.cat_id, Get(@, me.cat_id) + 1)
                 ELSE Put(@, me.cat_id, 1)])
    /\ game_pc' = [game_pc EXCEPT !.love[t].pc = "done"]
    /\ game_last' = [NoGameCall EXCEPT !.op = "love", !.nick = LoveNick(t)]
    /\ UNCHANGED <<gameplay, next_image_id, url_file, deleted_url_file, img_phase, img_last,
                   catVars, concVars, cmdVars, chkVars, autoVars>>

\* no love command has begun
NoLoveYet == \A t \in Threads : game_pc.love[t].pc = "idle"

SpecLoveConcInit == RoundInit /\ ConcInit /\ AutoIdle /\ GameIdle /\ CmdIdle /\ ChkIdle

\* the game is started and an image shown before the two commands come
SpecLoveConcNext ==
    \/ read_categories
    \/ read_images
    \/ NoLoveYet /\ start_game
    \/ \E i \in 1..2 : NoLoveYet /\ on_next_image(i)
    \/ \E t \in Threads : love_begin(t)
    \/ \E t \in Threads : love_has(t)
    \/ \E t \in Threads : love_add_test(t)
    \/ \E t \in Threads : love_add_set(t)

SpecLoveConc == SpecLoveConcInit /\ [][SpecLoveConcNext]_vars

\* the votes of an image for a category
VotesOf(id_, cat_id_) ==
    IF Has(images, id_) /\ Has(Get(images, id_).categories, cat_id_)
    THEN Get(Get(images, id_).categories, cat_id_) ELSE 0

\* C33: when two players send the same love, a word the current image did not
\* carry, at overlapping times, then under every interleaving the image ends
\* with 2 votes for that category and exactly one of the two has the create.
C33_ConcurrentLovesBothCount ==
    (\A t \in Threads : game_pc.love[t].pc = "done") =>
        /\ VotesOf(game_pc.love[1].image_id, game_pc.love[1].cat_id) = 2
        /\ CreatesOf(gameplay.players, "p") + CreatesOf(gameplay.players, "q") = 1

----------------------------------------------------------------------------
(* Purge of keywords among the commands on images (SpecPurge) *)

\* on_purge with one key: the key is removed when find_matches gives no image
on_purge(key_) ==
    /\ GameReady
    /\ LET cat_id == get_index(reverse_lookup, unquote_plus(key_))
       IN IF cat_id > 0 /\ Len(find_matches(images, <<cat_id>>)) = 0
          THEN delete_category(cat_id)
          ELSE /\ cat_last' = [NoCall EXCEPT !.op = "purge", !.id = cat_id]
               /\ UNCHANGED <<cat, reverse_lookup, next_index, cat_file, cat_phase, notCat>>

\* on_addkeys with one key: add_category(key), then Image.add_category(cat_id, 1)
on_addkeys(image_id_, key_) ==
    /\ GameReady
    /\ Has(images, image_id_)
    /\ new_index(cat) <= MaxCatKey
    /\ LET r == add_category_result(cat, reverse_lookup, cat_file, key_)
       IN /\ GetOr0(Get(images, image_id_).categories, r.ret) < MaxVotes
          /\ cat' = r.cat
          /\ reverse_lookup' = r.rev
          /\ cat_file' = r.file
          /\ cat_last' = [NoCall EXCEPT !.op = "add", !.kw = key_, !.ret = r.ret]
          /\ images' = Put(images, image_id_, [Get(images, image_id_) EXCEPT !.categories =
                                                  Image_add_category(@, r.ret, 1)])
    /\ img_last' = [NoImgCall EXCEPT !.op = "vote", !.id = image_id_]
    /\ UNCHANGED <<next_index, cat_phase, next_image_id, url_file, deleted_url_file, img_phase,
                   concVars, restVars>>

PurgeWords == { <<"a">>, <<"c">> }

SpecPurgeInit == ProbeInit /\ ConcInit /\ RestIdle

SpecPurgeNext ==
    \/ read_categories
    \/ read_images
    \/ \E w \in PurgeWords : on_purge(w)
    \/ GameReady /\ add_category(<<"c">>)
    \/ \E i \in 1..MaxImageId : on_addkeys(i, <<"c">>)
    \/ GameReady /\ add_image(<<"w">>)
    \/ GameReady /\ delete_image(1)
    \/ GameReady /\ restore_image(1)

SpecPurge == SpecPurgeInit /\ [][SpecPurgeNext]_vars

\* the category ids the live images of d carry
LiveCategoryIds(d) == UNION { { c \in 1..(MaxCatKey + 1) : Has(d[k][2].categories, c) } : k \in 1..Len(d) }

\* C34: a purge deletes a category only when no image uses it, so after every
\* step of the commands (add image, add keys, delete image, purge, add category,
\* restore image) every category id a live image carries is in the category
\* dictionary, under the keyword it had before the step.
C34_LiveCategoriesExist ==
    [][ GameReady =>
          \A c \in LiveCategoryIds(images') :
              /\ Has(cat', c)
              /\ Has(cat, c) => Get(cat', c) = Get(cat, c) ]_vars

----------------------------------------------------------------------------
(* The round counter of the automatic game *)

\* a step that is one clock tick of the automatic game
ClockTickStep == game_last'.op = "tick" /\ gameplay' # gameplay

\* the tick finds the countdown of a new cycle: no pause and no delay counted yet
FirstTickOfCycle == gameplay.current_pause = 0 /\ gameplay.current_delay = 0

\* C35: in an automatic game, for every pause >= 0 and delay >= 0, a tick adds
\* one to current_round when it is the first tick of a cycle and leaves it alone
\* otherwise, so that current_round never goes down and never passes `rounds`.
C35_RoundCountedOncePerCycle ==
    [][ ClockTickStep =>
          /\ gameplay'.current_round =
                 gameplay.current_round + (IF FirstTickOfCycle THEN 1 ELSE 0)
          /\ gameplay'.current_round <= gameplay.rounds ]_vars

----------------------------------------------------------------------------
(* The countdown of a round with a pause of one tick or more (SpecCountdown) *)

MaxLongPause == 2      \* the pause asked for, in ticks, from 1 up

SpecCountdownInit == AutoGameInit /\ ConcInit /\ AutoIdle /\ GameIdle /\ CmdIdle /\ ChkIdle

SpecCountdownNext ==
    \/ read_categories
    \/ read_images
    \/ \E r \in 1..MaxRounds, d \in 0..MaxGameDelay, p \in 1..MaxLongPause : auto_start(r, d, p)
    \/ process_clocktick
    \/ on_love_image("p", << <<"c">> >>)

SpecCountdown == SpecCountdownInit /\ [][SpecCountdownNext]_vars

\* what the tick finds: the pause not over, the delay not over, or both over
PauseTick == gameplay.current_pause < gameplay.pause
DelayTick == ~PauseTick /\ gameplay.current_delay < gameplay.delay
SettleTick == ~PauseTick /\ ~DelayTick

\* a step that is a love command
LoveStep == game_last'.op = "love"

----------------------------------------------------------------------------
(* The two interval callbacks of one period (SpecPeriod) *)

get_game_mode == gameplay.autogame /\ gameplay.game_on

\* the call of process_clocktick a callback makes when get_game_mode() is True
callback_clocktick(called) ==
    IF called
    THEN /\ gameplay.current_round < MaxRound
         /\ CanSettle
         /\ \E choice \in TickChoices(images) :
               gameplay' = process_clocktick_result(gameplay, choice)
         /\ url_file' = IF gameplay.current_image_id # 0
                           /\ gameplay.pause - gameplay.current_pause <= 0
                           /\ gameplay.delay - gameplay.current_delay <= 0
                        THEN [exists |-> TRUE, rows |-> checkpoint_rows(images)]
                        ELSE url_file
         /\ game_last' = [NoGameCall EXCEPT !.op = "tick"]
    ELSE UNCHANGED <<gameplay, url_file, game_last>>

\* autoplay_callback for the channel: the autoplay part, then, inside the same
\* "if channel.autoplay.get_autoplay_state()", the clock tick of the game
period_autoplay_callback ==
    /\ GameReady
    /\ ~game_pc.period.autoplay
    /\ IF autoplay.autoplay
       THEN LET shown == show_next_image_result(autoplay)
            IN IF shown.ret
               THEN IF Len(shown.a.image_keys) > 0
                    THEN \E choice \in (IF shown.a.sequential_ THEN {0}
                                        ELSE Range(shown.a.image_keys)) :
                             LET r == fetch_next_id_result(shown.a, choice)
                             IN /\ autoplay' = r.a
                                /\ auto_last' = [NoAutoCall EXCEPT !.op = "fetch_next_id",
                                                                   !.ret = r.ret]
                    ELSE /\ autoplay' = set_autoplay_off
                         /\ auto_last' = [NoAutoCall EXCEPT !.op = "set_autoplay"]
               ELSE /\ autoplay' = shown.a
                    /\ auto_last' = [NoAutoCall EXCEPT !.op = "show_next_image"]
       ELSE UNCHANGED <<autoplay, auto_last>>
    /\ callback_clocktick(autoplay.autoplay /\ get_game_mode)
    /\ game_pc' = [game_pc EXCEPT
          !.period.autoplay = TRUE,
          !.period.ticks = @ + (IF autoplay.autoplay /\ get_game_mode THEN 1 ELSE 0)]
    /\ UNCHANGED <<images, next_image_id, deleted_url_file, img_phase, img_last,
                   catVars, concVars, cmdVars, chkVars>>

\* gameplay_callback for the channel
period_gameplay_callback ==
    /\ GameReady
    /\ ~game_pc.period.gameplay
    /\ callback_clocktick(get_game_mode)
    /\ game_pc' = [game_pc EXCEPT
          !.period.gameplay = TRUE,
          !.period.ticks = @ + (IF get_game_mode THEN 1 ELSE 0)]
    /\ UNCHANGED <<images, next_image_id, deleted_url_file, img_phase, img_last,
                   catVars, concVars, cmdVars, chkVars, autoVars>>

\* both callbacks have run: the next period of the interval timer begins
period_end ==
    /\ game_pc.period.autoplay /\ game_pc.period.gameplay
    /\ game_pc' = [game_pc EXCEPT !.period = NoPeriod]
    /\ UNCHANGED <<gameplay, game_last, catVars, concVars, cmdVars, chkVars, imgVars, autoVars>>

\* no callback of the present period has run
PeriodStart == game_pc.period = NoPeriod

SpecPeriodInit == AutoGameInit /\ ConcInit /\ AutoIdle /\ GameIdle /\ CmdIdle /\ ChkIdle

\* the commands come between the periods
SpecPeriodNext ==
    \/ read_categories
    \/ read_images
    \/ \E r \in 1..MaxRounds, d \in 0..MaxGameDelay, p \in 0..MaxPause :
           PeriodStart /\ auto_start(r, d, p)
    \/ \E loop_ \in BOOLEAN :
           PeriodStart /\ GameReady /\ set_autoplay(TRUE, 1, TRUE, TRUE, loop_, Keys(images))
    \/ PeriodStart /\ set_autoplay(FALSE, DefaultDelay, FALSE, TRUE, FALSE, <<>>)
    \/ period_autoplay_callback
    \/ period_gameplay_callback
    \/ period_end

SpecPeriod == SpecPeriodInit /\ [][SpecPeriodNext]_vars

\* C37: while an automatic game runs, process_clocktick is called once in each
\* period of the interval timer, with autoplay on for the channel or not: never
\* twice, and once when both callbacks have run and the game is still running.
C37_OneTickPerPeriod ==
    /\ game_pc.period.ticks <= 1
    /\ (game_pc.period.autoplay /\ game_pc.period.gameplay /\ get_game_mode) =>
           game_pc.period.ticks = 1

----------------------------------------------------------------------------
(* The fix-up of the deleted images file in run_housekeeping *)

\* the (id, url) of the rows of a deleted images file
RowIdUrls(rows) == { <<rows[i][1], rows[i][2]>> : i \in 1..Len(rows) }

\* C38: the fix-up of the duplicate categories of the deleted images changes
\* only category columns of rows of the deleted images file: the dict of the
\* live images is as it was before (no deleted image is put in it, no live
\* image replaced), and the file has afterwards a row of the same id and url
\* for every row it had.
C38_DeletedFixupKeepsLive ==
    (cat_phase = "ready" /\ img_phase = "ready") =>
        LET repl == find_duplicates_result(cat, cat_file).repl
            live == remove_duplicate_categories_result(images, url_file, repl).images
            r == remove_duplicate_deleted_result(live, deleted_url_file, repl)
        IN DOMAIN repl # {} =>
              /\ r.images = live
              /\ RowIdUrls(deleted_url_file.rows) \subseteq RowIdUrls(r.deleted.rows)

----------------------------------------------------------------------------
(* The files after restore_image *)

\* C39: once restore_image has returned an id that is not negative, the
\* restored image has a row in the images file or still has a row in the
\* deleted images file, whether its id was free or taken by a live image: a
\* start of the bot from the two files finds the image in one of them.
C39_RestoredImageIsOnFile ==
    (img_phase = "ready" /\ img_last.op = "restore" /\ img_last.ret >= 0) =>
        LET image == Get(images, img_last.ret)
        IN \/ \E i \in 1..Len(url_file.rows) :
                  url_file.rows[i][1] = img_last.ret /\ url_file.rows[i][2] = image.url
           \/ \E i \in 1..Len(deleted_url_file.rows) :
                  deleted_url_file.rows[i][2] = image.url

----------------------------------------------------------------------------
(* The same image shown again in a later round *)

\* the last command of the game was next-image: no love has come in the round
NoLoveInRound == game_last.op = "next_image"

\* a step that settles the round: the next-image command or the stop of the game
SettleStep == game_last'.op \in { "next_image", "stop_game" }

\* C40: a love counts in the first, second and third matches of its player in
\* at most one settlement, the one that ends the round it was sent in; so when
\* an image is shown again and the round ends with no love sent in it, the
\* loves of the earlier round are not credited again: no match count changes.
C40_LovesCreditedOnce ==
    [][ (NoLoveInRound /\ SettleStep) =>
          \A i \in 1..Len(gameplay.players) :
              LET nick_ == gameplay.players[i][1]
              IN /\ Has(gameplay'.players, nick_)
                 /\ Credits(Get(gameplay'.players, nick_)) = Credits(gameplay.players[i][2]) ]_vars

=============================================================================
